---------------------------- MODULE Spec2Model ----------------------------
(***************************************************************************)
(* SecureVoting tallier: the clique manager (mpc_manager.py), the Shamir   *)
(* field arithmetic (utils.py), the MPC engine and the ballot validators   *)
(* (mpc.py, tallier.py) and the vote handler (websock.py, db.py).          *)
(*                                                                         *)
(* Each subsystem has its own variables, its own actions and its own       *)
(* specification; a specification keeps the other subsystems idle.         *)
(***************************************************************************)
EXTENDS Integers, Sequences, FiniteSets, TLC

VARIABLES
    \* ---- clique manager (mpc_manager.py), one TallierManager per tallier
    nT,                \* number of talliers of the clique, len(wanted_talliers)
    nE,                \* number of election ids the run uses
    mpc_wait_list,     \* [tallier -> [election -> MpcWaitItem]]
    config_wait_list,  \* [tallier -> set of elections with a parked signal]
    collected_all,     \* [tallier -> BOOLEAN]: MpcWaitItem.collected_all
    conn,              \* [connection -> state of its dial and accept handlers],
                       \* or [channel -> the Tallier object built on a connection]
    clique,            \* [tallier -> [election -> tuple start_clique returned]]
    \* ---- MPC engine (mpc.py), all D talliers of one clique side by side
    seed,              \* the outcome of the random module the run draws from
    pc,                \* how far the run has got
    args,              \* the clear operands of the operation that runs
    shares,            \* the operands and results as held by the talliers
    ret,               \* what the operation returned on each tallier
    computation_mpc,   \* websock.computation_mpc: the MpcWinner instance
    running_election,  \* websock.running_elections[id]: the MpcValidation instance
    \* ---- vote handler (websock.py) and store (db.py)
    db,                \* [tallier -> its running_election and election_votes rows]
    ledger             \* history: what the submitted ballots add up to

meshVars == <<nT, nE, mpc_wait_list, config_wait_list, collected_all, conn, clique>>

mpcVars == <<seed, pc, args, shares, ret, computation_mpc, running_election, db, ledger>>

vars == <<meshVars, mpcVars>>

(***************************************************************************)
(* Bounds of the model.                                                    *)
(***************************************************************************)
MaxTalliers == 3
MaxElections == 2
MaxConns == 6

(***************************************************************************)
(*                 FIELD ARITHMETIC AND SHAMIR (utils.py)                  *)
(* Python tuples and lists are sequences: index k of the source is index   *)
(* k + 1 here.                                                             *)
(***************************************************************************)
RECURSIVE SeqSum(_)
SeqSum(s) == IF s = << >> THEN 0 ELSE Head(s) + SeqSum(Tail(s))

RECURSIVE SeqProd(_)
SeqProd(s) == IF s = << >> THEN 1 ELSE Head(s) * SeqProd(Tail(s))

\* pow(b, e, p) for e >= 0.
RECURSIVE ModPow(_, _, _)
ModPow(b, e, p) == IF e = 0 THEN 1 % p ELSE ((b % p) * ModPow(b, e - 1, p)) % p

\* pow(x, -1, p) raises ValueError when x has no inverse modulo p.
Invertible(x, p) == \E y \in 0 .. (p - 1) : ((x % p) * y) % p = 1 % p

\* pow(x, -1, p), where it does not raise.
ModInverse(x, p) == CHOOSE y \in 0 .. (p - 1) : ((x % p) * y) % p = 1 % p

\* clean_gen_shamir(value, key_count, threshold, p), utils.py lines 21-23;
\* coefs are the threshold - 1 values choices(range(p), k=threshold - 1) drew.
clean_gen_shamir(value, key_count, threshold, p, coefs) ==
    LET a_i == <<value>> \o coefs
    IN  [x \in 1 .. key_count |->
            SeqSum([i \in 1 .. threshold |-> a_i[i] * ModPow(x, i - 1, p)]) % p]

\* resolve with the keys enumerated from 0 (enumerate(keys) without start=1).
resolve_from0(keys, p) ==
    LET n == Len(keys)
        c1(i) == SeqProd([j \in 1 .. n |-> IF j # i THEN j - 1 ELSE 1])
        c2(i) == SeqProd([j \in 1 .. n |-> IF j # i THEN (j - i) % p ELSE 1])
        l(i) == (c1(i) * ModInverse(c2(i), p) * keys[i]) % p
    IN  SeqSum([i \in 1 .. n |-> l(i)]) % p

\* resolve(keys, p), utils.py lines 31-40: Lagrange interpolation at 0 from
\* the points (1, keys[0]), (2, keys[1]), ...
resolve(keys, p) ==
    LET n == Len(keys)
        c1(i) == SeqProd([j \in 1 .. n |-> IF j # i THEN j ELSE 1])
        c2(i) == SeqProd([j \in 1 .. n |-> IF j # i THEN (j - i) % p ELSE 1])
        l(i) == (c1(i) * ModInverse(c2(i), p) * keys[i]) % p
    IN  SeqSum([i \in 1 .. n |-> l(i)]) % p

\* inverse.eliminate(r1, r2, col, target), utils.py lines 44-48.
eliminate(r1, r2, col, target, p) ==
    LET fac == (r2[col] - target) * ModInverse(r1[col], p)
    IN  [i \in 1 .. Len(r2) |-> (r2[i] - fac * r1[i]) % p]

\* The result of a call that raised ValueError.
ValueError == << >>

\* inverse.gauss, lines 52-58: the exchange of rows when a[i][i] is 0. The
\* source looks along row i (a[i][j]) and exchanges rows i and j.
PivotRow(a, i) ==
    LET n == Len(a)
        found == {j \in (i + 1) .. n : a[i][j] # 0}
    IN  IF a[i][i] # 0 THEN a
        ELSE IF found = {} THEN ValueError
        ELSE LET j == CHOOSE j \in found : \A k \in found : j <= k
             IN  [r \in 1 .. n |-> IF r = i THEN a[j] ELSE IF r = j THEN a[i] ELSE a[r]]

\* inverse.gauss, lines 51-60.
RECURSIVE gauss_forward(_, _, _)
gauss_forward(a, i, p) ==
    IF i > Len(a) THEN a
    ELSE LET b == PivotRow(a, i)
         IN  IF b = ValueError THEN ValueError
             ELSE IF ~Invertible(b[i][i], p) THEN ValueError
             ELSE gauss_forward(
                    [r \in 1 .. Len(b) |->
                        IF r > i THEN eliminate(b[i], b[r], i, 0, p) ELSE b[r]],
                    i + 1, p)

\* inverse.gauss, lines 61-63.
RECURSIVE gauss_backward(_, _, _)
gauss_backward(a, i, p) ==
    IF i < 1 THEN a
    ELSE IF ~Invertible(a[i][i], p) THEN ValueError
    ELSE gauss_backward(
            [r \in 1 .. Len(a) |->
                IF r < i THEN eliminate(a[i], a[r], i, 0, p) ELSE a[r]],
            i - 1, p)

\* inverse.gauss, lines 64-66.
gauss_normalise(a, p) ==
    [r \in 1 .. Len(a) |-> eliminate(a[r], a[r], r, 1, p)]

\* inverse(a, p), utils.py lines 43-73.
inverse(a, p) ==
    LET n == Len(a)
        tmp == [i \in 1 .. n |-> a[i] \o [k \in 1 .. n |-> IF k = i THEN 1 ELSE 0]]
        fwd == gauss_forward(tmp, 1, p)
        bwd == IF fwd = ValueError THEN ValueError ELSE gauss_backward(fwd, n, p)
    IN  IF bwd = ValueError THEN ValueError
        ELSE LET g == gauss_normalise(bwd, p)
             IN  [i \in 1 .. n |-> SubSeq(g[i], n + 1, 2 * n)]

(***************************************************************************)
(* The value of a variable of a subsystem that a specification leaves out. *)
(***************************************************************************)
None == << >>

MpcIdle ==
    /\ seed = 0 /\ pc = "idle" /\ args = None /\ shares = None /\ ret = None
    /\ computation_mpc = None /\ running_election = None
    /\ db = None /\ ledger = None

MeshIdle ==
    /\ nT = 0 /\ nE = 0
    /\ mpc_wait_list = << >> /\ config_wait_list = << >> /\ collected_all = << >>
    /\ conn = << >> /\ clique = << >>

(***************************************************************************)
(*                           CLIQUE MANAGER                                *)
(***************************************************************************)
AllTalliers == 0 .. (MaxTalliers - 1)
AllElections == 1 .. MaxElections
Talliers == 0 .. (nT - 1)
Elections == 1 .. nE

\* A connection is named by its election, its dialer and its acceptor.
AllConns == {c \in AllElections \X AllTalliers \X AllTalliers : c[2] # c[3]}
Conns == {c \in AllConns : c[1] \in Elections /\ c[2] \in Talliers /\ c[3] \in Talliers}

Dialer(c) == c[2]
Acceptor(c) == c[3]
ElectionOf(c) == c[1]

\* The clique sizes and election counts a run may have.
MeshConfigs ==
    {cfg \in (2 .. MaxTalliers) \X (1 .. MaxElections) :
        cfg[1] * (cfg[1] - 1) * cfg[2] <= MaxConns}

\* start_clique, line 235: the count of missing peers of a fresh descriptor.
InitialMissingNoSelf(n) == n

InitialMissing(n) == n - 1

\* start_clique, lines 234-235: MpcWaitItem(self_id, election_id, factory,
\* [None, ...], len - 1).
NewWaitItem(n) ==
    [talliers |-> [j \in 0 .. (n - 1) |-> None],
     missing_talliers |-> InitialMissing(n)]

\* start_clique, lines 239-241: the peers a tallier dials.
DialTargets(i) == Talliers \ {i}

\* MpcWaitItem.add_tallier, lines 157-158.
AddTallier(item, id, c) ==
    [item EXCEPT !.talliers[id] = c, !.missing_talliers = @ - 1]

\* MpcWaitItem.add_tallier, lines 159-160: collected_all is a class attribute
\* of MpcWaitItem (line 154 carries no annotation, so the dataclass makes no
\* field of it): one Event per process, shared by every descriptor, never
\* cleared.
SetCollected(i, item) ==
    [collected_all EXCEPT ![i] = @ \/ (item.missing_talliers = 0)]

Called(i, e) == e \in DOMAIN mpc_wait_list[i]
Returned(i, e) == e \in DOMAIN clique[i]

MeshInit ==
    /\ \E cfg \in MeshConfigs : nT = cfg[1] /\ nE = cfg[2]
    /\ mpc_wait_list = [i \in Talliers |-> << >>]
    /\ config_wait_list = [i \in Talliers |-> {}]
    /\ collected_all = [i \in Talliers |-> FALSE]
    /\ conn = [c \in Conns |-> "unspawned"]
    /\ clique = [i \in Talliers |-> << >>]

\* The mutant of StartClique that leaves the parked signal of the election
\* in config_wait_list, unset.
StartCliqueKeepsPending(i, e) ==
    /\ i \in Talliers /\ e \in Elections
    /\ ~Called(i, e)
    /\ LET item == NewWaitItem(nT) IN
        /\ mpc_wait_list' = [mpc_wait_list EXCEPT ![i] = (e :> item) @@ @]
        /\ conn' = [c \in Conns |->
                      IF ElectionOf(c) = e /\ Dialer(c) = i /\ Acceptor(c) \in DialTargets(i)
                      THEN "dialing" ELSE conn[c]]
        /\ clique' = IF collected_all[i]
                     THEN [clique EXCEPT ![i] = (e :> item.talliers) @@ @]
                     ELSE clique
    /\ UNCHANGED mpcVars
    /\ UNCHANGED <<nT, nE, collected_all, config_wait_list>>

\* TallierManager.start_clique(election_id, wanted_talliers, self_id, factory),
\* lines 233-244, up to the await of line 242. Event.wait() of a set Event
\* returns without suspending, so the call then runs on to its return.
StartClique(i, e) ==
    /\ i \in Talliers /\ e \in Elections
    /\ ~Called(i, e)
    /\ LET item == NewWaitItem(nT) IN
        /\ mpc_wait_list' = [mpc_wait_list EXCEPT ![i] = (e :> item) @@ @]
        /\ config_wait_list' = [config_wait_list EXCEPT ![i] = @ \ {e}]
        /\ conn' = [c \in Conns |->
                      IF ElectionOf(c) = e /\ Dialer(c) = i /\ Acceptor(c) \in DialTargets(i)
                      THEN "dialing" ELSE conn[c]]
        /\ clique' = IF collected_all[i]
                     THEN [clique EXCEPT ![i] = (e :> item.talliers) @@ @]
                     ELSE clique
    /\ UNCHANGED mpcVars
    /\ UNCHANGED <<nT, nE, collected_all>>

\* start_clique, lines 242-244: resumed after collected_all was set.
ReturnClique(i, e) ==
    /\ i \in Talliers /\ e \in Elections
    /\ Called(i, e) /\ ~Returned(i, e)
    /\ collected_all[i]
    /\ clique' = [clique EXCEPT ![i] = (e :> mpc_wait_list[i][e].talliers) @@ @]
    /\ UNCHANGED mpcVars
    /\ UNCHANGED <<nT, nE, mpc_wait_list, config_wait_list, collected_all, conn>>

\* The mutant of Decide that takes every connection whose handshake arrived.
DecideAlways(c) ==
    LET j == Acceptor(c)
        e == ElectionOf(c)
        item == mpc_wait_list[j][e]
    IN  /\ conn' = [conn EXCEPT ![c] = "replied"]
        /\ mpc_wait_list' = [mpc_wait_list EXCEPT ![j][e] = AddTallier(item, Dialer(c), c)]
        /\ collected_all' = SetCollected(j, AddTallier(item, Dialer(c), c))

\* TallierManager._react_conn, lines 219-228, on the acceptor.
Decide(c) ==
    LET j == Acceptor(c)
        e == ElectionOf(c)
        item == mpc_wait_list[j][e]
    IN  IF item.talliers[Dialer(c)] = None
        THEN /\ conn' = [conn EXCEPT ![c] = "replied"]
             /\ mpc_wait_list' = [mpc_wait_list EXCEPT ![j][e] = AddTallier(item, Dialer(c), c)]
             /\ collected_all' = SetCollected(j, AddTallier(item, Dialer(c), c))
        ELSE /\ conn' = [conn EXCEPT ![c] = "closedByAcceptor"]
             /\ UNCHANGED <<mpc_wait_list, collected_all>>

\* TallierManager._connect, lines 190-195, and TallierManager._react_conn,
\* lines 214-218, with _get_wait_item, lines 177-185: the dialed connection
\* opens and the dialer sends its handshake (which changes nothing a handler
\* reads); the acceptor reads it and goes on when the election's descriptor
\* exists, and parks on the election's signal otherwise.
React(c) ==
    /\ c \in Conns
    /\ conn[c] = "dialing"
    /\ IF Called(Acceptor(c), ElectionOf(c))
       THEN Decide(c) /\ UNCHANGED config_wait_list
       ELSE /\ conn' = [conn EXCEPT ![c] = "parked"]
            /\ config_wait_list' = [config_wait_list EXCEPT ![Acceptor(c)] = @ \cup {ElectionOf(c)}]
            /\ UNCHANGED <<mpc_wait_list, collected_all>>
    /\ UNCHANGED mpcVars
    /\ UNCHANGED <<nT, nE, clique>>

\* _get_wait_item, line 185: a parked handler resumes once start_clique has
\* popped and set the signal of its election (lines 237-238).
Resume(c) ==
    /\ c \in Conns
    /\ conn[c] = "parked"
    /\ ElectionOf(c) \notin config_wait_list[Acceptor(c)]
    /\ Decide(c)
    /\ UNCHANGED mpcVars
    /\ UNCHANGED <<nT, nE, config_wait_list, clique>>

\* TallierManager._connect, lines 198-206: the acceptor's handshake arrives.
\* (When the acceptor closed the connection instead, readexactly raises and
\* lines 207-208 swallow it: the dialer changes nothing.)
DialerFinish(c) ==
    /\ c \in Conns
    /\ conn[c] = "replied"
    /\ LET i == Dialer(c)
           e == ElectionOf(c)
           item == mpc_wait_list[i][e]
       IN  IF item.talliers[Acceptor(c)] = None
           THEN /\ conn' = [conn EXCEPT ![c] = "added"]
                /\ mpc_wait_list' = [mpc_wait_list EXCEPT ![i][e] = AddTallier(item, Acceptor(c), c)]
                /\ collected_all' = SetCollected(i, AddTallier(item, Acceptor(c), c))
           ELSE /\ conn' = [conn EXCEPT ![c] = "closedByDialer"]
                /\ UNCHANGED <<mpc_wait_list, collected_all>>
    /\ UNCHANGED mpcVars
    /\ UNCHANGED <<nT, nE, config_wait_list, clique>>

\* One end of the connection was closed by the duplicate-connection branch
\* (lines 204-206, 226-228).
ClosedByTieBreak(c) == conn[c] \in {"closedByAcceptor", "closedByDialer"}

ConnStep(c) == React(c) \/ Resume(c) \/ DialerFinish(c)

InitMesh == MeshInit /\ MpcIdle

NextMesh ==
    \/ \E i \in AllTalliers, e \in AllElections : StartClique(i, e)
    \/ \E i \in AllTalliers, e \in AllElections : ReturnClique(i, e)
    \/ \E c \in AllConns : React(c)
    \/ \E c \in AllConns : Resume(c)
    \/ \E c \in AllConns : DialerFinish(c)

SpecMesh == InitMesh /\ [][NextMesh]_vars

\* A step of a handler of the manager, as opposed to a call from outside.
HandlerStep ==
    \/ \E c \in AllConns : ConnStep(c)
    \/ \E i \in AllTalliers, e \in AllElections : ReturnClique(i, e)

\* The event loop runs a handler whenever one is ready; every handler runs a
\* bounded number of steps, so this is all the loop's fairness that is needed.
\* The calls of start_clique come from outside and carry no fairness.
FairSpecMesh == InitMesh /\ [][NextMesh]_vars /\ WF_vars(HandlerStep)

(***************************************************************************)
(*                    CLAIMS ABOUT THE CLIQUE MANAGER                      *)
(***************************************************************************)
AllCalled(e) == e \in Elections /\ \A i \in Talliers : Called(i, e)
AllReturned(e) == e \in Elections /\ \A i \in Talliers : Returned(i, e)

\* C1: whenever a start_clique call has returned on a tallier, every slot of
\* the returned tuple other than self_id holds a channel, for the first
\* election and for every later election started on the same manager.
C1_ReturnedCliqueIsFull ==
    \A i \in Talliers : \A e \in DOMAIN clique[i] :
        \A j \in Talliers \ {i} : clique[i][e][j] # None

\* C2: when start_clique for one election has returned on talliers i and j,
\* the channel i holds in slot j and the channel j holds in slot i are the two
\* ends of one connection, and the duplicate-connection branch closed neither
\* end of it.
C2_PeersShareOneLiveConnection ==
    \A e \in Elections : \A i \in Talliers : \A j \in Talliers \ {i} :
        (/\ Returned(i, e) /\ Returned(j, e)
         /\ clique[i][e][j] # None /\ clique[j][e][i] # None) =>
            /\ clique[i][e][j] = clique[j][e][i]
            /\ ~ClosedByTieBreak(clique[i][e][j])
            /\ ~ClosedByTieBreak(clique[j][e][i])

\* C3: mesh formation liveness: once all talliers of the clique have invoked
\* start_clique for an election id (in any order, after any delay) and no
\* connection attempt fails, every one of these calls eventually returns.
C3_MeshFormationLiveness ==
    \A e \in AllElections : AllCalled(e) ~> AllReturned(e)

\* C3 witness: every tallier's start_clique of an election has returned, and
\* a dialed connection of that election got its acceptor's handshake back.
C3_Witness ==
    \E e \in Elections :
        /\ AllReturned(e)
        /\ \E c \in Conns : ElectionOf(c) = e /\ conn[c] \in {"added", "closedByDialer"}

(***************************************************************************)
(*                     SHAMIR ROUND TRIP (utils.py)                        *)
(***************************************************************************)
MaxShares == 9
MaxCoef == 2

FieldPrimes == {5, 7, 11}

\* The threshold the engine shares with, (D + 1) // 2 (mpc.py line 55).
Threshold(D) == (D + 1) \div 2

\* The threshold ceil((D + 1) / 2).
CeilThreshold(D) == (D + 2) \div 2

\* What choices(range(p), k=n) may return, up to the bound.
Coefs(n, p) == [1 .. n -> {x \in 0 .. MaxCoef : x < p}]

\* The largest field of the model.
MaxPrime == CHOOSE m \in FieldPrimes : \A q \in FieldPrimes : q <= m

ShamirArgs ==
    {a \in [p : FieldPrimes, D : 3 .. MaxShares, t : 2 .. MaxShares, s : 0 .. (MaxPrime - 1)] :
        /\ a.D < a.p /\ a.s < a.p
        /\ a.t \in {Threshold(a.D), CeilThreshold(a.D)}}

InitShamir ==
    /\ MeshIdle
    /\ seed = 0 /\ pc = "start" /\ shares = None /\ ret = None
    /\ computation_mpc = None /\ running_election = None
    /\ db = None /\ ledger = None
    /\ \E a \in ShamirArgs : \E coefs \in Coefs(a.t - 1, a.p) :
          args = [p |-> a.p, D |-> a.D, t |-> a.t, s |-> a.s, coefs |-> coefs]

GenShares ==
    /\ pc = "start" /\ "coefs" \in DOMAIN args
    /\ shares' = clean_gen_shamir(args.s, args.D, args.t, args.p, args.coefs)
    /\ pc' = "shared"
    /\ UNCHANGED <<seed, args, ret, computation_mpc, running_election, db, ledger>>
    /\ UNCHANGED meshVars

Reconstruct ==
    /\ pc = "shared" /\ "coefs" \in DOMAIN args
    /\ ret' = resolve(shares, args.p)
    /\ pc' = "resolved"
    /\ UNCHANGED <<seed, args, shares, computation_mpc, running_election, db, ledger>>
    /\ UNCHANGED meshVars

NextShamir == GenShares \/ Reconstruct

SpecShamir == InitShamir /\ [][NextShamir]_vars

\* C10: share round trip: for every secret s in [0, p), every 3 <= D <= 9
\* with D < p and whatever coefficients were drawn, Lagrange interpolation at
\* 0 of the D shares clean_gen_shamir(s, D, t, p) made gives s back, for the
\* threshold t = ceil((D + 1) / 2) and for the engine's t = (D + 1) // 2.
C10_ShareRoundTrip ==
    (pc = "resolved" /\ "coefs" \in DOMAIN args) => ret = args.s

\* C10 witness: nine shares of a non-zero secret under a polynomial of
\* degree four were reconstructed.
C10_Witness ==
    /\ pc = "resolved" /\ "coefs" \in DOMAIN args
    /\ args.D = 9 /\ args.t = CeilThreshold(9) /\ args.s # 0
    /\ args.coefs[args.t - 1] # 0
    /\ ret = args.s

(***************************************************************************)
(*                        MPC ENGINE (mpc.py)                              *)
(* The D talliers of a clique run one operation side by side. A shared     *)
(* value is the tuple of what each tallier holds, tallier k of the source  *)
(* being index k + 1; every result is computed for each tallier from what  *)
(* that tallier received through exchange.                                 *)
(***************************************************************************)
MaxClique == 7
MaxSeed == 2

\* tuple(...): the value is built once, when the statement runs. (TLC would
\* otherwise evaluate a function constructor anew at each application; an
\* equality makes it build the value.)
Eager(v) == IF v = v THEN v ELSE v

\* await: the coroutine has the value v before it goes on. (TLC would
\* otherwise compute an operand where it is first used, at the bottom of
\* the evaluation of everything that follows.)
Await(v) == v = v

\* The random module: randint(0, p - 1) and choices(range(p)) as drawn by
\* call n of the run on tallier k for coordinate c, draw j. A seed fixes one
\* outcome of all the draws of a run; seed 0 is the outcome of all zeros.
Rand(n, k, c, j, p) == (seed * (1 + n + 2 * k + 3 * c + 5 * j)) % p

\* Election (mytypes.py lines 15-23), with M for len(candidates).
Election(rule, M, p, L) == [selected_election_type |-> rule, M |-> M, p |-> p, L |-> L]

\* MpcBase.__init__, mpc.py lines 46-55.
MpcBase(election, D) ==
    [election |-> election, D |-> D, p |-> election.p,
     vandermond_first_row |->
        inverse([i \in 1 .. D |-> [j \in 1 .. D |-> ModPow(i, j - 1, election.p)]],
                election.p)[1]]

\* self.gen_shamir(val), mpc.py line 55, with the draws of call n.
gen_shamir(m, val, n, k, c) ==
    Eager(clean_gen_shamir(val, m.D, Threshold(m.D), m.p,
                           [j \in 1 .. (Threshold(m.D) - 1) |-> Rand(n, k, c, j, m.p)]))

\* An exchange in which every tallier is handed back what it sent.
w_exchange_echo(values) ==
    [k \in 1 .. Len(values) |-> [i \in 1 .. Len(values) |-> values[k][i]]]

\* MpcWinner.exchange, lines 70-76: values[k][i] is what tallier k addresses
\* to tallier i; tallier k gets back what every tallier i addressed to it.
w_exchange(values) ==
    Eager([k \in 1 .. Len(values) |-> [i \in 1 .. Len(values) |-> values[i][k]]])

\* MpcWinner.bgw_multiply, lines 78-80.
bgw_multiply(m, n, a, b) ==
    LET results == w_exchange(Eager([k \in 1 .. m.D |->
                        gen_shamir(m, (a[k] * b[k]) % m.p, n, k, 0)]))
    IN  Eager([k \in 1 .. m.D |->
            SeqSum([i \in 1 .. m.D |-> m.vandermond_first_row[i] * results[k][i]]) % m.p])

\* MpcWinner.rnd_multiply, lines 82-109. The tallier msgid % D gathers the
\* masked shares, resolves them and sends the clear value to the others.
rnd_multiply(m, msgid, n, a, b) ==
    LET d == (m.D + 1) \div 2
        r_i(k) == Rand(n, k, 0, 0, m.p)
        r_i_d == Eager([k \in 1 .. m.D |->
                    clean_gen_shamir(r_i(k), m.D, d, m.p,
                        [j \in 1 .. (d - 1) |-> Rand(n, k, 1, j, m.p)])])
        r_i_2d == Eager([k \in 1 .. m.D |->
                    clean_gen_shamir(r_i(k), m.D, 2 * d - 1, m.p,
                        [j \in 1 .. (2 * d - 2) |-> Rand(n, k, 2, j, m.p)])])
        received_d == w_exchange(r_i_d)
        received_2d == w_exchange(r_i_2d)
        r_d == Eager([k \in 1 .. m.D |-> SeqSum(received_d[k]) % m.p])
        r_2d == Eager([k \in 1 .. m.D |-> SeqSum(received_2d[k]) % m.p])
        w_d == Eager([k \in 1 .. m.D |-> (a[k] * b[k] + r_2d[k]) % m.p])
        T == (msgid % m.D) + 1
        gathered == Eager([i \in 1 .. m.D |-> IF i = T THEN w_d[T] ELSE w_d[i]])
        clear == resolve(gathered, m.p)
    IN  Eager([k \in 1 .. m.D |-> (clear - r_d[k]) % m.p])

\* MpcWinner.resolve, lines 113-115.
w_resolve(m, a) ==
    LET results == w_exchange(Eager([k \in 1 .. m.D |-> [i \in 1 .. m.D |-> a[k]]]))
    IN  Eager([k \in 1 .. m.D |-> resolve(results[k], m.p)])

(***************************************************************************)
(* test_multiply_bgw and test_multiply_rnd (test_mpc.py lines 95-123): the *)
(* operands are shared, multiplied by every tallier and resolved.          *)
(***************************************************************************)
MultiplyCliques == {D \in 3 .. MaxClique : D % 2 = 1}

MsgIds == {0, 1, 2}

InitMultiply ==
    /\ MeshIdle
    /\ seed \in 0 .. MaxSeed
    /\ pc = "start" /\ shares = None /\ ret = None
    /\ running_election = None /\ db = None /\ ledger = None
    /\ \E p \in FieldPrimes, D \in MultiplyCliques :
          /\ D < p
          /\ computation_mpc = MpcBase(Election("approval", 0, p, 1), D)
          /\ \E a \in 0 .. (p - 1), b \in 0 .. (p - 1), msgid \in MsgIds :
                \E mul \in {"bgw_multiply", "rnd_multiply"} :
                    args = [a |-> a, b |-> b, msgid |-> msgid, multiply |-> mul]

ShareOperands ==
    /\ pc = "start" /\ "multiply" \in DOMAIN args
    /\ LET m == computation_mpc
       IN  shares' = [a |-> gen_shamir(m, args.a, 1, 1, 0),
                      b |-> gen_shamir(m, args.b, 2, 1, 0)]
    /\ pc' = "shared"
    /\ UNCHANGED <<seed, args, ret, computation_mpc, running_election, db, ledger>>
    /\ UNCHANGED meshVars

BgwMultiply ==
    /\ pc = "shared" /\ "multiply" \in DOMAIN args /\ args.multiply = "bgw_multiply"
    /\ shares' = [shares EXCEPT !.a = bgw_multiply(computation_mpc, 3, shares.a, shares.b)]
    /\ pc' = "multiplied"
    /\ UNCHANGED <<seed, args, ret, computation_mpc, running_election, db, ledger>>
    /\ UNCHANGED meshVars

RndMultiply ==
    /\ pc = "shared" /\ "multiply" \in DOMAIN args /\ args.multiply = "rnd_multiply"
    /\ shares' = [shares EXCEPT !.a = rnd_multiply(computation_mpc, args.msgid, 3,
                                                   shares.a, shares.b)]
    /\ pc' = "multiplied"
    /\ UNCHANGED <<seed, args, ret, computation_mpc, running_election, db, ledger>>
    /\ UNCHANGED meshVars

ResolveProduct ==
    /\ pc = "multiplied" /\ "multiply" \in DOMAIN args
    /\ ret' = w_resolve(computation_mpc, shares.a)
    /\ pc' = "resolved"
    /\ UNCHANGED <<seed, args, shares, computation_mpc, running_election, db, ledger>>
    /\ UNCHANGED meshVars

NextMultiply == ShareOperands \/ BgwMultiply \/ RndMultiply \/ ResolveProduct

SpecMultiply == InitMultiply /\ [][NextMultiply]_vars

\* C9: for all a, b in [0, p) and every clique size D in {3, 5, 7}: after
\* all D talliers ran multiply on their shares of a and b under one msgid
\* and resolved the result, every tallier holds (a * b) mod p; this for
\* bgw_multiply and for rnd_multiply.
C9_MultiplyThenResolve ==
    (pc = "resolved" /\ "multiply" \in DOMAIN args) =>
        \A k \in 1 .. computation_mpc.D :
            ret[k] = (args.a * args.b) % computation_mpc.p

\* C9 witness: seven talliers resolved a non-zero product that rnd_multiply
\* made under random polynomials that are not constant.
C9_Witness ==
    /\ pc = "resolved" /\ "multiply" \in DOMAIN args
    /\ args.multiply = "rnd_multiply" /\ computation_mpc.D = 7 /\ seed # 0
    /\ (args.a * args.b) % computation_mpc.p > 1
    /\ \A k \in 1 .. computation_mpc.D : ret[k] = (args.a * args.b) % computation_mpc.p

(***************************************************************************)
(*                  MpcValidation (mpc.py lines 282-471)                   *)
(* A shared tuple is a[k][c]: what tallier k holds for coordinate c.       *)
(***************************************************************************)
RECURSIVE Concat(_)
Concat(seqs) == IF seqs = << >> THEN << >> ELSE Head(seqs) \o Concat(Tail(seqs))

Min(a, b) == IF a <= b THEN a ELSE b

\* Election.vote_vector_size, mytypes.py lines 25-30.
vote_vector_size(election) ==
    IF election.selected_election_type \in {"copeland", "maximin"}
    THEN (election.M * (election.M - 1)) \div 2
    ELSE election.M

\* The result of a call that raised NotImplementedError.
NotImplementedError == -1

\* MpcValidation.message_size, lines 454-471.
message_size(election) ==
    LET M == election.M
        rule == election.selected_election_type
    IN  CASE rule = "approval" -> M
          [] rule = "plurality" -> M + 1
          [] rule = "veto" -> M + 1
          [] rule = "copeland" -> (M * (M - 1)) \div 2
          [] rule = "maximin" -> M - 1
          [] OTHER -> NotImplementedError

\* utils.transpose: rows to columns.
transpose(mat) ==
    IF mat = << >> THEN << >>
    ELSE [j \in 1 .. Len(mat[1]) |-> [i \in 1 .. Len(mat) |-> mat[i][j]]]

\* An exchange in which every tallier is handed back what it sent.
v_exchange_echo(m, values) ==
    [k \in 1 .. m.D |-> values[k]]

\* MpcValidation.exchange, lines 283-291: values[k][c][i] is what tallier k
\* addresses to tallier i for coordinate c. A message carries one tallier's
\* coordinates, padded with zeros to message_size; the reader keeps the
\* first len(values) of them. The result at tallier k is, per coordinate,
\* the tuple of what the talliers addressed to k. (The assertion of line 285
\* holds in every call of the validators modelled here.)
v_exchange(m, values) ==
    LET padding_len == message_size(m.election) - Len(values[1])
        sent == Eager([k \in 1 .. m.D |-> transpose(values[k])])
        message(k, i) == sent[k][i] \o [z \in 1 .. padding_len |-> 0]
        received(k) == Eager([i \in 1 .. m.D |->
                          IF i = k THEN sent[k][k]
                          ELSE SubSeq(message(i, k), 1, Len(values[k]))])
    IN  Eager([k \in 1 .. m.D |-> transpose(received(k))])

\* MpcValidation.multiply, lines 293-295, with the draws of call n.
v_multiply(m, n, a_i, b_i) ==
    LET len == Min(Len(a_i[1]), Len(b_i[1]))
        res_i == v_exchange(m, Eager([k \in 1 .. m.D |-> [c \in 1 .. len |->
                      gen_shamir(m, (a_i[k][c] * b_i[k][c]) % m.p, n, k, c)]]))
    IN  Eager([k \in 1 .. m.D |-> [c \in 1 .. len |->
                  SeqSum([i \in 1 .. m.D |-> m.vandermond_first_row[i] * res_i[k][c][i]]) % m.p]])

\* MpcValidation.resolve, lines 297-299.
v_resolve(m, a_i) ==
    LET res_i == v_exchange(m, Eager([k \in 1 .. m.D |-> [c \in 1 .. Len(a_i[k]) |->
                      [i \in 1 .. m.D |-> a_i[k][c]]]]))
    IN  Eager([k \in 1 .. m.D |-> [c \in 1 .. Len(a_i[k]) |-> resolve(res_i[k][c], m.p)]])

\* MpcValidation.random_number, lines 301-303, with the draws of call n.
v_random_number(m, n, amount) ==
    LET res_i == v_exchange(m, Eager([k \in 1 .. m.D |-> [c \in 1 .. amount |->
                      gen_shamir(m, Rand(n, k, c, 0, m.p), n, k, c)]]))
    IN  Eager([k \in 1 .. m.D |-> [c \in 1 .. amount |-> SeqSum(res_i[k][c]) % m.p]])

\* The loop of is_zero, lines 308-312.
RECURSIVE is_zero_loop(_, _, _, _, _)
is_zero_loop(m, cn, n, result, a_i) ==
    IF n > 0
    THEN LET r1 == IF n % 2 = 1 THEN v_multiply(m, cn, result, a_i) ELSE result
             r2 == v_multiply(m, cn + 1, r1, r1)
         IN  is_zero_loop(m, cn + 2, n \div 2, r2, a_i)
    ELSE result

\* is_zero that returns the power itself, not its complement.
is_zero_uncomplemented(m, cn, a_i) ==
    is_zero_loop(m, cn, m.p - 1, [k \in 1 .. m.D |-> [c \in 1 .. Len(a_i[k]) |-> 1]], a_i)

\* MpcValidation.is_zero, lines 305-313.
is_zero(m, cn, a_i) ==
    LET result == is_zero_loop(m, cn, m.p - 1,
                               [k \in 1 .. m.D |-> [c \in 1 .. Len(a_i[k]) |-> 1]], a_i)
    IN  Eager([k \in 1 .. m.D |-> [c \in 1 .. Len(a_i[k]) |-> (m.p + 1 - result[k][c]) % m.p]])

\* The loop of multi_products, lines 316-321: Muls[k] is the list of tuples
\* tallier k holds.
RECURSIVE multi_products_loop(_, _, _)
multi_products_loop(m, cn, Muls) ==
    LET count == Len(Muls[1])
        lens == [idx \in 1 .. count |-> Len(Muls[1][idx])]
        amounts == [idx \in 1 .. count |-> lens[idx] \div 2]
        pairs_a(k) == Concat([idx \in 1 .. count |->
                          [q \in 1 .. amounts[idx] |-> Muls[k][idx][2 * q - 1]]])
        pairs_b(k) == Concat([idx \in 1 .. count |->
                          [q \in 1 .. amounts[idx] |-> Muls[k][idx][2 * q]]])
        products == v_multiply(m, cn, [k \in 1 .. m.D |-> pairs_a(k)],
                                      [k \in 1 .. m.D |-> pairs_b(k)])
        before(idx) == SeqSum(SubSeq(amounts, 1, idx - 1))
        rest(k, idx) == IF lens[idx] % 2 = 1 THEN <<Muls[k][idx][lens[idx]]>> ELSE << >>
    IN  IF \E idx \in 1 .. count : lens[idx] > 1
        THEN multi_products_loop(m, cn + 1,
                [k \in 1 .. m.D |-> [idx \in 1 .. count |->
                    SubSeq(products[k], before(idx) + 1, before(idx) + amounts[idx])
                        \o rest(k, idx)]])
        ELSE Muls

\* MpcValidation.multi_products, lines 315-322.
multi_products(m, cn, Muls) ==
    LET done == multi_products_loop(m, cn, Muls)
    IN  Eager([k \in 1 .. m.D |-> [idx \in 1 .. Len(done[k]) |->
                  IF done[k][idx] = << >> THEN 1 ELSE done[k][idx][1]]])

\* MpcValidation.__calc_complement, lines 324-325, on one tallier's tuple.
calc_complement(m, votes, complement) ==
    [c \in 1 .. Len(votes) |-> (complement - votes[c]) % m.p]

(***************************************************************************)
(* The validators. What a call does on tallier k is a record: result is    *)
(* "True" or "False" for a returned boolean, the name of the exception for *)
(* a call that raised, "blocked" for a call that waits for talliers that   *)
(* have left; line is the source line of the return or raise statement     *)
(* and k the iteration of the loop around it.                              *)
(***************************************************************************)
Bool(b) == IF b THEN "True" ELSE "False"

Returned_(b, line, k) == [result |-> Bool(b), line |-> line, k |-> k]

Raised(exception, line) == [result |-> exception, line |-> line, k |-> 0]

\* A return False that the talliers with reject[k] take: the others go on
\* and wait for them.
EarlyReturn(reject, line, k) ==
    [t \in DOMAIN reject |->
        IF reject[t] THEN Returned_(FALSE, line, k)
        ELSE [result |-> "blocked", line |-> line, k |-> k]]

\* validate_approval, lines 327-330.
validate_approval(m, votes) ==
    LET a_i == v_multiply(m, 1, votes,
                          [k \in 1 .. m.D |-> calc_complement(m, votes[k], 1)])
        clear == v_resolve(m, a_i)
    IN  [k \in 1 .. m.D |->
            Returned_(\A c \in 1 .. Len(clear[k]) : clear[k][c] = 0, 330, 0)]

\* validate_plurality without the test of the sum.
validate_plurality_nosum(m, votes) ==
    LET a_i == v_multiply(m, 1, votes,
                          [k \in 1 .. m.D |-> calc_complement(m, votes[k], 1)])
        clear == v_resolve(m, [k \in 1 .. m.D |-> <<SeqSum(votes[k]) % m.p>> \o a_i[k]])
    IN  [k \in 1 .. m.D |->
            Returned_(\A c \in 2 .. Len(clear[k]) : clear[k][c] = 0, 335, 0)]

\* validate_plurality, lines 332-335.
validate_plurality(m, votes) ==
    LET a_i == v_multiply(m, 1, votes,
                          [k \in 1 .. m.D |-> calc_complement(m, votes[k], 1)])
        clear == v_resolve(m, [k \in 1 .. m.D |-> <<SeqSum(votes[k]) % m.p>> \o a_i[k]])
    IN  [k \in 1 .. m.D |->
            Returned_(/\ clear[k][1] = 1
                      /\ \A c \in 2 .. Len(clear[k]) : clear[k][c] = 0, 335, 0)]

\* validate_veto, lines 337-341.
validate_veto(m, votes) ==
    LET a_i == v_multiply(m, 1, votes,
                          [k \in 1 .. m.D |-> calc_complement(m, votes[k], 1)])
        clear == v_resolve(m, [k \in 1 .. m.D |-> <<SeqSum(votes[k]) % m.p>> \o a_i[k]])
        M == m.election.M
    IN  [k \in 1 .. m.D |->
            Returned_(/\ clear[k][1] = M - 1
                      /\ \A c \in 2 .. Len(clear[k]) : clear[k][c] = 0, 341, 0)]

\* The index of the pair m1 < m2 in a ballot of pairs, lines 371 and 421,
\* counted from 0.
PairIndex(m1, m2, M) == m2 - m1 - 1 + m1 * M - (m1 * (m1 + 1)) \div 2

\* combinations(range(M), 2): the pairs mP < m in lexicographic order.
combinations2(M) ==
    LET pairs == {pr \in (0 .. (M - 1)) \X (0 .. (M - 1)) : pr[1] < pr[2]}
        rank(pr) == Cardinality({q \in pairs :
                        q[1] < pr[1] \/ (q[1] = pr[1] /\ q[2] < pr[2])})
    IN  [idx \in 1 .. Cardinality(pairs) |-> CHOOSE pr \in pairs : rank(pr) = idx - 1]

\* The place of the pair mP < m in combinations2(M): Q1_idx, Q2_idx of lines
\* 395 and 397.
ComboIndex(mP, m, M) ==
    CHOOSE idx \in 1 .. Len(combinations2(M)) : combinations2(M)[idx] = <<mP, m>>

\* __validate_condorcer.pos, lines 366-371, on one tallier's tuple.
pos(m, shared, m1, m2) ==
    IF m1 = m2 THEN 0
    ELSE IF m2 < m1 THEN (0 - shared[PairIndex(m2, m1, m.election.M) + 1]) % m.p
    ELSE shared[PairIndex(m1, m2, m.election.M) + 1]

\* validate_copeland.q, lines 416-421, on one tallier's ballot.
q(m, votes, m1, m2) ==
    IF m1 = m2 THEN 0
    ELSE IF m2 < m1 THEN (0 - votes[PairIndex(m2, m1, m.election.M) + 1]) % m.p
    ELSE votes[PairIndex(m1, m2, m.election.M) + 1]

\* The call number of the draws of the joint random masks of line 406.
MaskCall == 40

\* The loop of lines 384-389 from iteration k on; << >> when no tallier
\* returns from it.
RECURSIVE condorcer_ties(_, _, _, _)
condorcer_ties(m, Q, xi, k) ==
    LET M == m.election.M
        C == combinations2(M)
        pi == v_resolve(m, v_multiply(m, 20 + k, xi,
                  [t \in 1 .. m.D |-> [i \in 1 .. Len(C) |->
                      (Q[t][C[i][1]][k] - Q[t][C[i][2]][k]) % m.p]]))
        reject == [t \in 1 .. m.D |-> \E i \in 1 .. Len(C) : pi[t][i] # 0]
    IN  IF k >= M THEN << >>
        ELSE IF \E t \in 1 .. m.D : reject[t] THEN EarlyReturn(reject, 389, k)
        ELSE condorcer_ties(m, Q, xi, k + 1)

\* __validate_condorcer, lines 364-412; Q[t] is the matrix tallier t built.
validate_condorcer(m, Q) ==
    LET M == m.election.M
        D == m.D
        C == combinations2(M)
        N == Len(C)
        Shared(f(_, _)) == Eager([t \in 1 .. D |-> [i \in 1 .. N |-> f(t, i)]])
        \* sub protocol 3, lines 6-10
        Qpair(t, i) == Q[t][C[i][1]][C[i][2]]
        Qplus(t, i) == (Q[t][C[i][1]][C[i][2]] + 1) % m.p
        Qminus(t, i) == (Q[t][C[i][1]][C[i][2]] - 1) % m.p
        x1 == v_multiply(m, 1, Shared(Qpair), Shared(Qplus))
        x2 == v_multiply(m, 2, x1, Shared(Qminus))
        x3 == v_resolve(m, x2)
        reject1 == [t \in 1 .. D |-> \E i \in 1 .. N : x3[t][i] # 0]
        \* sub protocol 3, lines 11-17
        xi == is_zero(m, 3, Shared(Qpair))
        ties == condorcer_ties(m, Q, xi, 0)
        \* sub protocol 3, lines 18-19
        eta == multi_products(m, 30,
                  [t \in 1 .. D |-> [mm \in 1 .. M |-> [mP \in 1 .. (mm - 1) |->
                      (1 - pos(m, xi[t], mP - 1, mm - 1)) % m.p]]])
        \* sub protocol 3, lines 20-21
        EtaFirst(t, i) == eta[t][C[i][1] + 1]
        EtaSecond(t, i) == eta[t][C[i][2] + 1]
        Qlower(t, i) == Q[t][C[i][2]][C[i][1]]
        Q1 == v_multiply(m, 35, Shared(EtaFirst), Shared(Qlower))
        Q2 == v_multiply(m, 36, Shared(EtaSecond), Shared(Qpair))
        Q_m == Eager([t \in 1 .. D |-> [mm \in 0 .. (M - 1) |->
                  SeqSum([mP1 \in 1 .. M |->
                      LET mP == mP1 - 1
                      IN  IF mm = mP THEN 0
                          ELSE IF mP < mm THEN Q1[t][ComboIndex(mP, mm, M)]
                          ELSE Q2[t][ComboIndex(mm, mP, M)]]) % m.p]])
        \* sub protocol 3, lines 22-29
        eta_mul == v_multiply(m, 37, Shared(EtaSecond), Shared(EtaFirst))
        Qdiff(t, i) == (Q_m[t][C[i][1]] - Q_m[t][C[i][2]]) % m.p
        gamma0 == v_multiply(m, 38, eta_mul, Shared(Qdiff))
        Gamma(t, i) == (1 - eta_mul[t][i] + gamma0[t][i]) % m.p
        r == v_random_number(m, MaskCall, N)
        x == v_resolve(m, v_multiply(m, 41, r, Shared(Gamma)))
        reject3 == [t \in 1 .. D |-> \E i \in 1 .. N : x[t][i] = 0]
    IN  IF \E t \in 1 .. D : reject1[t] THEN EarlyReturn(reject1, 380, 0)
        ELSE IF ties # << >> THEN ties
        ELSE IF \E t \in 1 .. D : reject3[t] THEN EarlyReturn(reject3, 410, 0)
        ELSE [t \in 1 .. D |-> Returned_(TRUE, 412, 0)]

\* validate_copeland, lines 415-425.
validate_copeland(m, votes) ==
    LET M == m.election.M
    IN  validate_condorcer(m,
            Eager([t \in 1 .. m.D |-> [m1 \in 0 .. (M - 1) |-> [m2 \in 0 .. (M - 1) |->
                q(m, votes[t], m1, m2)]]]))

\* validate, lines 437-452. The call of validate_range leaves out max_value
\* (line 445); validate_borda reads self.M, which no class defines (line
\* 361); validate_maximin passes __validate_condorcer two arguments more
\* than it takes (line 435).
validate(m, votes) ==
    LET rule == m.election.selected_election_type
    IN  CASE rule = "approval" -> validate_approval(m, votes)
          [] rule = "plurality" -> validate_plurality(m, votes)
          [] rule = "veto" -> validate_veto(m, votes)
          [] rule = "range" -> [t \in 1 .. m.D |-> Raised("TypeError", 445)]
          [] rule = "borda" -> [t \in 1 .. m.D |-> Raised("AttributeError", 361)]
          [] rule = "copeland" -> validate_copeland(m, votes)
          [] rule = "maximin" -> [t \in 1 .. m.D |-> Raised("TypeError", 435)]
          [] OTHER -> [t \in 1 .. m.D |-> Raised("NotImplementedError", 452)]

(***************************************************************************)
(* A voter shares a ballot among the talliers of a running election and    *)
(* every tallier runs validate on what it got.                             *)
(***************************************************************************)
MaxCandidates == 3
MaxVote == 2
MaxRange == 2
MaxValidators == 4

ElectionPrimes == {5, 7}

ElectionTypes == {"plurality", "range", "approval", "veto", "borda", "copeland", "maximin"}

Elections_ ==
    {e \in [selected_election_type : ElectionTypes, M : 2 .. MaxCandidates,
            p : ElectionPrimes, L : 1 .. MaxRange] :
        e.selected_election_type \notin {"range", "borda"} => e.L = 1}

\* The ballots a voter may submit: vote_vector_size coordinates of the field.
Ballots(election) ==
    [1 .. vote_vector_size(election) -> (0 .. MaxVote) \cup {election.p - 1}]

\* The voter's shares of a ballot: votes[k][c] goes to tallier k.
ShareBallot(m, ballot) ==
    Eager([k \in 1 .. m.D |-> [c \in 1 .. Len(ballot) |-> gen_shamir(m, ballot[c], 0, 0, c)[k]]])

InitValidate ==
    /\ MeshIdle
    /\ seed \in 0 .. MaxSeed
    /\ pc = "start" /\ shares = None /\ ret = None
    /\ computation_mpc = None /\ db = None /\ ledger = None
    /\ \E e \in Elections_, D \in 3 .. MaxValidators :
          /\ D < e.p
          /\ running_election = MpcBase(e, D)
          /\ \E ballot \in Ballots(e) : args = [votes |-> ballot]

SubmitBallot ==
    /\ pc = "start" /\ "votes" \in DOMAIN args /\ db = None
    /\ shares' = [votes |-> ShareBallot(running_election, args.votes)]
    /\ pc' = "submitted"
    /\ UNCHANGED <<seed, args, ret, computation_mpc, running_election, db, ledger>>
    /\ UNCHANGED meshVars

Validate ==
    /\ pc = "submitted" /\ "votes" \in DOMAIN args /\ db = None
    /\ ret' = validate(running_election, shares.votes)
    /\ pc' = "validated"
    /\ UNCHANGED <<seed, args, shares, computation_mpc, running_election, db, ledger>>
    /\ UNCHANGED meshVars

NextValidate == SubmitBallot \/ Validate

SpecValidate == InitValidate /\ [][NextValidate]_vars

Validated(rules) ==
    /\ pc = "validated" /\ "votes" \in DOMAIN args /\ db = None
    /\ running_election.election.selected_election_type \in rules

\* The ballots a rule admits.
Admissible(election, x) ==
    LET rule == election.selected_election_type
        M == election.M
        binary == \A c \in 1 .. Len(x) : x[c] \in {0, 1}
    IN  CASE rule = "approval" -> binary
          [] rule = "plurality" -> binary /\ SeqSum(x) = 1
          [] rule = "veto" -> binary /\ SeqSum(x) = M - 1
          [] rule = "range" -> \A c \in 1 .. Len(x) : x[c] \in 0 .. election.L
          [] rule = "borda" -> {x[c] : c \in 1 .. Len(x)} = 0 .. (M - 1)
          [] OTHER ->
                \E score \in [0 .. (M - 1) -> 0 .. (M - 1)] :
                    \A i \in 1 .. Len(x) :
                        LET m1 == combinations2(M)[i][1]
                            m2 == combinations2(M)[i][2]
                        IN  x[i] = IF score[m1] > score[m2] THEN 1
                                   ELSE IF score[m1] = score[m2] THEN 0
                                   ELSE election.p - 1

AllReturn(b) ==
    \A k \in 1 .. running_election.D : ret[k].result = Bool(b)

\* C5: in an approval, plurality or veto election with M < p candidates,
\* validate returns true on every tallier when the shared ballot x satisfies
\* the rule (approval: x in {0,1}^M; plurality: also sum(x) = 1; veto: also
\* sum(x) = M - 1) and false on every tallier when it does not.
C5_BinaryRulesValidate ==
    Validated({"approval", "plurality", "veto"}) =>
        AllReturn(Admissible(running_election.election, args.votes))

\* C5 witness: under plurality the ballot (0,1,0), shared with polynomials
\* that are not constant, was accepted by every tallier.
C5_Witness ==
    /\ Validated({"plurality"}) /\ args.votes = <<0, 1, 0>> /\ seed # 0
    /\ AllReturn(TRUE)

\* The clear value of the joint random mask of coordinate c (line 406).
JointMask(c) ==
    LET m == running_election
    IN  SeqSum([k \in 1 .. m.D |-> Rand(MaskCall, k, c, 0, m.p)]) % m.p

MasksNonZero ==
    \A c \in 1 .. vote_vector_size(running_election.election) : JointMask(c) # 0

CopelandBallot ==
    \A c \in 1 .. Len(args.votes) : args.votes[c] \in {running_election.p - 1, 0, 1}

\* C6: in a copeland election, when the joint random masks are non-zero,
\* validate_copeland on the shares of a ballot of {p-1, 0, 1}^(M(M-1)/2)
\* returns true on every tallier if the ballot is the pairwise-comparison
\* encoding of an assignment of scores to the candidates, and false on every
\* tallier if it is not.
C6_CopelandValidate ==
    (Validated({"copeland"}) /\ CopelandBallot /\ MasksNonZero) =>
        AllReturn(Admissible(running_election.election, args.votes))

\* C6 witness: with non-zero masks, the encoding (1, 1, 0) of the scores
\* (2, 1, 1) of three candidates was accepted by every tallier.
C6_Witness ==
    /\ Validated({"copeland"}) /\ MasksNonZero /\ seed # 0
    /\ args.votes = <<1, 1, 0>>
    /\ AllReturn(TRUE)

\* C7: in a range election with bound L, validate returns on every tallier
\* the boolean "every coordinate of the ballot is in 0..L", and in a borda
\* election the boolean "the ballot is a permutation of 0..M-1"; the call
\* returns a boolean and does not raise.
C7_RangeBordaValidate ==
    Validated({"range", "borda"}) =>
        AllReturn(Admissible(running_election.election, args.votes))

\* C8: validate agreement: all talliers that ran validate on their shares of
\* one ballot got the same result and left the protocol at the same
\* statement, in the same iteration of the loop around it.
C8_ValidateAgreement ==
    Validated(ElectionTypes) =>
        \A k \in 1 .. running_election.D : ret[k] = ret[1]

\* C8 witness: every tallier left a copeland validation at the return False
\* of the loop of lines 384-389, in the same iteration, on shares made with
\* polynomials that are not constant.
C8_Witness ==
    /\ Validated({"copeland"}) /\ seed # 0
    /\ \A k \in 1 .. running_election.D :
          ret[k] = [result |-> "False", line |-> 389, k |-> 1]

(***************************************************************************)
(*        THE VOTE HANDLER (websock.py lines 124-154, db.py)               *)
(* A voter shares a ballot and the flag not_abstain among the talliers;    *)
(* every tallier runs the handler of /elections/vote on what it got.       *)
(* The prime of computation_mpc (2147483647 in the source, line 31) is the  *)
(* largest prime of the model; the prime of the election (message['p'],    *)
(* line 83) is that prime or a smaller one.                                *)
(***************************************************************************)
MaxVoters == 2
MaxBallots == 2

Voters == 1 .. MaxVoters

\* The prime of computation_election, websock.py line 31.
ComputationPrime == MaxPrime

\* The elections of the model: create_election takes whatever p the message
\* carries (line 83).
VoteElections ==
    {Election(rule, 2, p, 1) : rule \in {"plurality", "range"}, p \in {5, ComputationPrime}}

\* The ballots the voters of the model submit.
VoteBallots(election) == {x \in Ballots(election) : \A c \in 1 .. Len(x) : x[c] \in {0, 1}}

\* sum_int_arrays of the store: the sum of two arrays, coordinate by
\* coordinate, modulo p.
sum_int_arrays(a, b, p) == [c \in 1 .. Len(a) |-> (a[c] + b[c]) % p]

\* The rows of a tallier's store after create_election and start_election
\* (db.py lines 75-78 and 131-134).
NewStore(election) ==
    [vote_vector |-> [c \in 1 .. vote_vector_size(election) |-> 0],
     vote_state |-> [v \in Voters |-> election.p + 1]]

\* The vote state of voter v that the talliers' rows reconstruct to.
ClearState(d, v) ==
    resolve([k \in 1 .. computation_mpc.D |-> d[k].vote_state[v]], computation_mpc.p)

\* The aggregate that the talliers' running vote vectors reconstruct to.
Aggregate(d) ==
    [c \in 1 .. vote_vector_size(running_election.election) |->
        resolve([k \in 1 .. running_election.D |-> d[k].vote_vector[c]],
                running_election.p)]

InitVote ==
    /\ MeshIdle
    /\ seed \in 0 .. MaxSeed
    /\ pc = "voting" /\ args = None /\ shares = None /\ ret = None
    /\ \E e \in VoteElections :
          /\ running_election = MpcBase(e, 3)
          /\ computation_mpc = MpcBase(Election("approval", 0, ComputationPrime, 1), 3)
          /\ db = [k \in 1 .. 3 |-> NewStore(e)]
          /\ ledger = [n |-> 0, counted |-> [c \in 1 .. vote_vector_size(e) |-> 0],
                       can_vote |-> [v \in Voters |-> 1], last |-> None]

\* The handler of /elections/vote from line 146 on, once validate has
\* returned validated[k] on tallier k and the multiply of line 150 has
\* returned scale[k], and db.vote, lines 177-188: the rows every tallier is
\* left with and the code every tallier closes the socket with. A handler in
\* which validate raised closes with 1003 and stores nothing (line 164).
store_vote(v, votes, db_status, validated, scale) ==
    LET em == running_election
        cm == computation_mpc
        msg_id == v
        returned == \A k \in 1 .. em.D : validated[k].result \in {"True", "False"}
        votes_scale == Eager([k \in 1 .. cm.D |->
                          (IF validated[k].result = "True" THEN 1 ELSE 0) * scale[k]])
        res == w_resolve(cm, votes_scale)
        new_votes == v_multiply(em, 51, votes,
                        Eager([k \in 1 .. em.D |-> [c \in 1 .. Len(votes[k]) |-> votes_scale[k]]]))
        new_db_status == rnd_multiply(cm, msg_id, 52, db_status,
                            Eager([k \in 1 .. cm.D |-> 1 - votes_scale[k]]))
        stored == Eager([k \in 1 .. em.D |->
                    [vote_vector |-> sum_int_arrays(new_votes[k], db[k].vote_vector, em.election.p),
                     vote_state |-> [db[k].vote_state EXCEPT ![v] = new_db_status[k]]]])
    IN  [validate |-> validated,
         db |-> IF returned THEN stored ELSE db,
         close |-> Eager([k \in 1 .. em.D |->
                     IF ~returned THEN 1003 ELSE IF res[k] # 0 THEN 1000 ELSE 4000])]

\* The handler from line 139 on, for the shares votes[k] and not_abstain[k]
\* that tallier k received and the vote state db_status[k] it read.
validate_vote(v, votes, not_abstain, db_status) ==
    store_vote(v, votes, db_status,
               Eager(validate(running_election, votes)),
               rnd_multiply(computation_mpc, v, 50, db_status, not_abstain))

\* The handler of /elections/vote, lines 124-154, run by all talliers on the
\* shares of one submission of voter v; get_user_id(email) is v.
vote_handler(v, ballot, na) ==
    validate_vote(v, ShareBallot(running_election, ballot),
                  gen_shamir(computation_mpc, na, 45, 0, 0),
                  Eager([k \in 1 .. computation_mpc.D |-> db[k].vote_state[v]]))

\* One submission: voter v shares a ballot and the flag not_abstain, the
\* talliers run the handler. The ledger notes what the submission should
\* add: a ballot counts when validate returned true on all talliers, the
\* voter does not abstain and has not had a ballot counted before.
Vote(v, ballot, na) ==
    /\ pc = "voting" /\ db # None /\ ledger.n < MaxBallots
    /\ \E h \in {vote_handler(v, ballot, na)} :
          \E valid \in {\A k \in 1 .. running_election.D : h.validate[k].result = "True"} :
             \E counts \in {valid /\ na = 1 /\ ledger.can_vote[v] = 1} :
                /\ db' = h.db
                /\ ret' = h.close
                /\ ledger' = [n |-> ledger.n + 1,
                              counted |-> IF counts
                                          THEN sum_int_arrays(ballot, ledger.counted,
                                                              running_election.p)
                                          ELSE ledger.counted,
                              can_vote |-> IF counts THEN [ledger.can_vote EXCEPT ![v] = 0]
                                           ELSE ledger.can_vote,
                              last |-> [valid |-> valid,
                                        before |-> ClearState(db, v),
                                        after |-> ClearState(h.db, v)]]
    /\ UNCHANGED <<seed, pc, args, shares, computation_mpc, running_election>>
    /\ UNCHANGED meshVars

NextVote ==
    \E v \in Voters, na \in {0, 1} :
        \E ballot \in VoteBallots(running_election.election) : Vote(v, ballot, na)

SpecVote == InitVote /\ [][NextVote]_vars

\* C4: after any sequence of ballot submissions, the aggregate that the
\* talliers' running vote vectors reconstruct to is the sum modulo p of the
\* ballots for which validate returned true on all talliers (of which the
\* handler counts a voter's first that does not abstain), and a ballot for
\* which validate returned false leaves the voter's vote state as it was.
C4_AggregateIsSumOfValidBallots ==
    (pc = "voting" /\ db # None) =>
        /\ Aggregate(db) = ledger.counted
        /\ (ledger.last # None /\ ~ledger.last.valid) =>
                ledger.last.after = ledger.last.before

(***************************************************************************)
(*                 MPCWINNER OPERATIONS (mpc.py lines 119-279)             *)
(* The tests of test_mpc.py share the operands of one operation among the  *)
(* talliers of a clique, every tallier runs the operation on what it got   *)
(* and the results are resolved. args holds the operation and the clear    *)
(* operands, shares the tuple each operand or result is shared as.         *)
(***************************************************************************)
Op(name) == "op" \in DOMAIN args /\ args.op = name

\* clean_gen_shamir of every operand, as the voter or the test does.
ShareValues(m, values) ==
    Eager([i \in 1 .. Len(values) |-> gen_shamir(m, values[i] % m.p, 0, 0, i)])

\* The state before an MpcWinner operation op runs on a clique of D
\* talliers over Z_p.
WinnerStart(op, p, D, values, msgid) ==
    /\ MeshIdle
    /\ pc = "start" /\ shares = None /\ ret = None
    /\ running_election = None /\ db = None /\ ledger = None
    /\ computation_mpc = MpcBase(Election("approval", 3, p, 5), D)
    /\ args = [op |-> op, values |-> values, msgid |-> msgid]

WinnerShare ==
    /\ pc = "start" /\ "op" \in DOMAIN args
    /\ shares' = ShareValues(computation_mpc, args.values)
    /\ pc' = "shared"
    /\ UNCHANGED <<seed, args, ret, computation_mpc, running_election, db, ledger>>
    /\ UNCHANGED meshVars

\* t.resolve of every result.
WinnerResolve ==
    /\ pc = "computed" /\ "op" \in DOMAIN args
    /\ ret' = [i \in 1 .. Len(shares) |-> w_resolve(computation_mpc, shares[i])]
    /\ pc' = "resolved"
    /\ UNCHANGED <<seed, args, shares, computation_mpc, running_election, db, ledger>>
    /\ UNCHANGED meshVars

\* The loop of MpcWinner.is_zero, lines 240-244.
RECURSIVE w_is_zero_loop(_, _, _, _, _)
w_is_zero_loop(m, msgid, n, result, a) ==
    IF n > 0
    THEN LET r1 == IF n % 2 = 1 THEN rnd_multiply(m, msgid, 2 * n, result, a) ELSE result
             r2 == rnd_multiply(m, msgid, 2 * n + 1, r1, r1)
         IN  w_is_zero_loop(m, msgid, n \div 2, r2, a)
    ELSE result

\* MpcWinner.is_zero, lines 237-245.
w_is_zero(m, msgid, a) ==
    LET result == w_is_zero_loop(m, msgid, m.p - 1, [k \in 1 .. m.D |-> 1], a)
    IN  Eager([k \in 1 .. m.D |-> (m.p + 1 - result[k]) % m.p])

(***************************************************************************)
(* test_is_zero (test_mpc.py lines 136-146), for MpcWinner.is_zero and for *)
(* MpcValidation.is_zero on a tuple of one coordinate.                     *)
(***************************************************************************)
InitIsZero ==
    /\ seed \in 0 .. MaxSeed
    /\ \E p \in FieldPrimes, D \in 3 .. MaxValidators, a \in 0 .. (MaxPrime - 1) :
          \E op \in {"MpcWinner.is_zero", "MpcValidation.is_zero"} :
             /\ D < p /\ a < p
             /\ WinnerStart(op, p, D, <<a>>, 0)

WinnerIsZero ==
    /\ pc = "shared" /\ Op("MpcWinner.is_zero")
    /\ shares' = <<w_is_zero(computation_mpc, args.msgid, shares[1])>>
    /\ pc' = "computed"
    /\ UNCHANGED <<seed, args, ret, computation_mpc, running_election, db, ledger>>
    /\ UNCHANGED meshVars

ValidationIsZero ==
    /\ pc = "shared" /\ Op("MpcValidation.is_zero")
    /\ \E r \in {is_zero(computation_mpc, 1,
                         Eager([k \in 1 .. computation_mpc.D |-> <<shares[1][k]>>]))} :
          shares' = <<[k \in 1 .. computation_mpc.D |-> r[k][1]]>>
    /\ pc' = "computed"
    /\ UNCHANGED <<seed, args, ret, computation_mpc, running_election, db, ledger>>
    /\ UNCHANGED meshVars

NextIsZero == WinnerShare \/ WinnerIsZero \/ ValidationIsZero \/ WinnerResolve

SpecIsZero == InitIsZero /\ [][NextIsZero]_vars

Resolved(ops) == pc = "resolved" /\ "op" \in DOMAIN args /\ args.op \in ops

Computed(ops) == pc = "computed" /\ "op" \in DOMAIN args /\ args.op \in ops

\* C11: for every odd prime p and every a in [0, p), resolve(is_zero(share(a)))
\* is 1 on every tallier when a = 0 and 0 on every tallier otherwise, for
\* MpcWinner.is_zero and for MpcValidation.is_zero.
C11_IsZeroIndicator ==
    Resolved({"MpcWinner.is_zero", "MpcValidation.is_zero"}) =>
        \A k \in 1 .. computation_mpc.D :
            ret[1][k] = IF args.values[1] = 0 THEN 1 ELSE 0

(***************************************************************************)
(*          Number theory of the random bits (utils.py lines 76-155)       *)
(***************************************************************************)
\* modular_sqrt.legendre_symbol, utils.py lines 85-92.
legendre_symbol(a, p) ==
    LET ls == ModPow(a, (p - 1) \div 2, p)
    IN  IF ls = p - 1 THEN -1 ELSE ls

\* The s and e of p - 1 = s * 2^e, s odd, utils.py lines 102-105.
RECURSIVE odd_part(_, _)
odd_part(s, e) == IF s % 2 = 0 THEN odd_part(s \div 2, e + 1) ELSE <<s, e>>

\* The least n >= 2 that is no square modulo p, utils.py lines 109-111.
RECURSIVE non_residue(_, _)
non_residue(n, p) == IF legendre_symbol(n, p) # -1 THEN non_residue(n + 1, p) ELSE n

\* The m the loop `for m in range(r)` of lines 122-125 ends with.
RECURSIVE order_index(_, _, _, _)
order_index(t, m, r, p) ==
    IF r = 0 THEN 0
    ELSE IF t = 1 \/ m = r - 1 THEN m
    ELSE order_index((t * t) % p, m + 1, r, p)

\* The loop `while True` of modular_sqrt, utils.py lines 121-134.
RECURSIVE tonelli_shanks(_, _, _, _, _)
tonelli_shanks(x, b, g, r, p) ==
    LET m == order_index(b, 0, r, p)
        gs == ModPow(g, 2 ^ (r - m - 1), p)
        g2 == (gs * gs) % p
    IN  IF m = 0 THEN x
        ELSE tonelli_shanks((x * gs) % p, (b * g2) % p, g2, m, p)

\* modular_sqrt, utils.py lines 76-134.
modular_sqrt(a, p) ==
    IF a = 0 \/ p = 2 \/ legendre_symbol(a, p) # 1 THEN 0
    ELSE IF p % 4 = 3 THEN ModPow(a, (p + 1) \div 4, p)
    ELSE LET se == odd_part(p - 1, 0)
             s == se[1]
             n == non_residue(2, p)
         IN  tonelli_shanks(ModPow(a, (s + 1) \div 2, p), ModPow(a, s, p),
                            ModPow(n, s, p), se[2], p)

\* lagrange_polynomial.coeffs, utils.py lines 138-143: the coefficients of
\* the product of (X - a[i]), lowest degree first.
RECURSIVE coeffs(_, _)
coeffs(a, p) ==
    IF Len(a) = 1 THEN <<-a[1], 1>>
    ELSE LET sub == coeffs(Tail(a), p)
             lo == <<0>> \o sub
             hi == sub \o <<0>>
         IN  [i \in 1 .. Len(lo) |-> (lo[i] - hi[i] * a[1]) % p]

\* lagrange_polynomial.l_j, utils.py lines 145-148; xs are the abscissas.
l_j(xs, x_j, p) ==
    LET a == SelectSeq(xs, LAMBDA x : x # x_j)
        q_ == ModInverse(SeqProd([i \in 1 .. Len(a) |-> x_j - a[i]]), p)
        c == coeffs(a, p)
    IN  [i \in 1 .. Len(c) |-> (c[i] * q_) % p]

\* lagrange_polynomial, utils.py lines 137-155: points[i] = <<x, y>>.
lagrange_polynomial(points, p) ==
    LET xs == [i \in 1 .. Len(points) |-> points[i][1]]
        prod(i) == LET l == l_j(xs, points[i][1], p)
                   IN  [c \in 1 .. Len(l) |-> (l[c] * points[i][2]) % p]
        prods == Eager([i \in 1 .. Len(points) |-> prod(i)])
    IN  Eager([c \in 1 .. Len(points) |->
                  SeqSum([i \in 1 .. Len(points) |-> prods[i][c]]) % p])

\* MpcWinner.__fan_in_or_coefficients, mpc.py lines 131-135.
fan_in_or_coefficients(p, length) ==
    lagrange_polynomial(<<(<<1, 0>>)>> \o [i \in 1 .. length |-> <<i + 1, 1>>], p)

(***************************************************************************)
(*       Random numbers, random bits and bitwise comparison (mpc.py)       *)
(* A clear constant used as a share is the same number on every tallier.   *)
(* The draws of an operation running under msgid are those of the calls    *)
(* msgid, msgid + 1, ... of the run, a retry of a loop taking the next.    *)
(***************************************************************************)
Public(m, x) == [k \in 1 .. m.D |-> x]

\* math.ceil(math.sqrt(n)).
CeilSqrt(n) == CHOOSE l \in 0 .. n : l * l >= n /\ (l = 0 \/ (l - 1) * (l - 1) < n)

\* math.ceil(math.log2(p)).
CeilLog2(p) == CHOOSE b \in 0 .. 30 : 2 ^ b >= p /\ (b = 0 \/ 2 ^ (b - 1) < p)

\* MpcWinner.__init__, line 68.
block_size(m) == 2 * CeilSqrt(CeilLog2(m.p)) * CeilSqrt(CeilLog2(m.p))

\* [int(digit) for digit in reversed(bin(x)[2:])], padded with zeros to
\* count digits.
Bits(x, count) == [i \in 1 .. count |-> (x \div (2 ^ (i - 1))) % 2]

\* MpcWinner.random_number, lines 119-121, with the draws of call n.
w_random_number(m, n) ==
    LET ex == w_exchange(Eager([k \in 1 .. m.D |->
                  gen_shamir(m, Rand(n, k, 0, 0, m.p), n, k, 1)]))
    IN  Eager([k \in 1 .. m.D |-> SeqSum(ex[k]) % m.p])

\* MpcWinner.random_bit, lines 123-129, from the resolved square r2 of the
\* random number r on.
random_bit_of(m, r, r2) ==
    Eager([k \in 1 .. m.D |->
        ((r[k] * ModInverse(modular_sqrt(r2[k], m.p), m.p) + 1) * ModInverse(2, m.p)) % m.p])

RECURSIVE random_bit(_, _, _)
random_bit_squared(m, msgid, n, r) ==
    IF Await(r)
    THEN LET r2 == w_resolve(m, rnd_multiply(m, msgid, n, r, r))
         IN  IF r2[1] # 0 THEN random_bit_of(m, r, r2) ELSE random_bit(m, msgid, n + 1)
    ELSE None

\* MpcWinner.random_bit, lines 123-129: every tallier takes the branch of
\* line 127 on the value it resolved, which is the same on all.
random_bit(m, msgid, n) == random_bit_squared(m, msgid, n, w_random_number(m, n))

\* The loop of fan_in_or, lines 144-145.
RECURSIVE fan_in_or_loop(_, _, _, _, _, _, _, _)
fan_in_or_loop(m, msgid, i, len, alpha_i, A, mul_A, res) ==
    IF i < len
    THEN LET next_A == rnd_multiply(m, msgid, msgid + i, A, mul_A)
         IN  fan_in_or_loop(m, msgid, i + 1, len, alpha_i, A, next_A,
                            Eager([k \in 1 .. m.D |-> res[k] + alpha_i[i + 2] * next_A[k]]))
    ELSE Eager([k \in 1 .. m.D |-> res[k] % m.p])

fan_in_or_from(m, msgid, len, alpha_i, A) ==
    fan_in_or_loop(m, msgid, 1, len, alpha_i, A, A,
                   Eager([k \in 1 .. m.D |-> alpha_i[1] + alpha_i[2] * A[k]]))

\* MpcWinner.fan_in_or, lines 137-146: a_i is a list of shared bits.
fan_in_or(m, msgid, a_i) ==
    fan_in_or_from(m, msgid, Len(a_i), fan_in_or_coefficients(m.p, Len(a_i)),
                   Eager([k \in 1 .. m.D |->
                       (1 + SeqSum([i \in 1 .. Len(a_i) |-> a_i[i][k]])) % m.p]))

\* prefix_or.calc_mul, lines 149-150.
calc_mul(m, msgbase, first, seconds) ==
    Eager([j \in 1 .. Len(seconds) |->
        rnd_multiply(m, msgbase + j - 1, msgbase + j - 1, first, seconds[j])])

\* asyncio.gather(*map(self.multiply, count(msgid), a_i, b_i)), lines 167
\* and 177.
calc_mul_pairs(m, msgid, a_i, b_i) ==
    Eager([i \in 1 .. Len(a_i) |->
        rnd_multiply(m, msgid + i - 1, msgid + i - 1, a_i[i], b_i[i])])

\* A slice a_i[:n] that keeps the whole list.
Prefix_whole(s, n) == s

\* a_i[:n].
Prefix(s, n) == [i \in 1 .. n |-> s[i]]

\* prefix_or from line 161 on: the c_j are known.
prefix_or_tail(m, msgid, lam, orig_len, y_i, f_i, h_j) ==
    LET s_ij == Eager([i \in 1 .. lam |-> calc_mul(m, msgid + lam * (i - 1), f_i[i], h_j)])
    IN  Eager([n \in 1 .. orig_len |->
            LET i == ((n - 1) \div lam) + 1
                j == ((n - 1) % lam) + 1
            IN  [k \in 1 .. m.D |-> (s_ij[i][j][k] + y_i[i][k] - f_i[i][k]) % m.p]])

\* prefix_or from line 159 on: the y_i and f_i are known.
prefix_or_mid(m, msgid, lam, orig_len, a_ij, y_i, f_i) ==
    LET g_ij == Eager([i \in 1 .. lam |-> calc_mul(m, msgid + lam * (i - 1), f_i[i], a_ij[i])])
        c_j == Eager([j \in 1 .. lam |-> [k \in 1 .. m.D |->
                    SeqSum([i \in 1 .. lam |-> g_ij[i][j][k]]) % m.p]])
    IN  prefix_or_tail(m, msgid, lam, orig_len, y_i, f_i,
            Eager([j \in 1 .. lam |->
                fan_in_or(m, msgid + 2 * (j - 1) * lam, Prefix(c_j, j))]))

\* prefix_or from line 157 on: the x_i are known.
prefix_or_blocks(m, msgid, lam, orig_len, a_ij, x_i) ==
    LET y_i == Eager([i \in 1 .. lam |->
                    fan_in_or(m, msgid + 2 * (i - 1) * lam, Prefix(x_i, i))])
    IN  prefix_or_mid(m, msgid, lam, orig_len, a_ij, y_i,
            Eager([i \in 1 .. lam |->
                IF i = 1 THEN y_i[1]
                ELSE [k \in 1 .. m.D |-> y_i[i][k] - y_i[i - 1][k]]]))

\* prefix_or from line 156 on, on the lam blocks a_ij of lam bits.
prefix_or_padded(m, msgid, lam, orig_len, a_ij) ==
    prefix_or_blocks(m, msgid, lam, orig_len, a_ij,
        Eager([i \in 1 .. lam |-> fan_in_or(m, msgid + 2 * lam * (i - 1), a_ij[i])]))

\* MpcWinner.prefix_or, lines 148-163.
prefix_or(m, msgid, a_i) ==
    LET lam == CeilSqrt(Len(a_i))
        padded == a_i \o [i \in 1 .. (lam * lam - Len(a_i)) |-> Public(m, 0)]
    IN  prefix_or_padded(m, msgid, lam, Len(a_i),
            Eager([i \in 1 .. lam |-> [j \in 1 .. lam |-> padded[(i - 1) * lam + j]]]))

(***************************************************************************)
(* prefix_or on the shares of a list of bits, resolved.                    *)
(***************************************************************************)
MaxBits == 7

BitLists == UNION {[1 .. n -> {0, 1}] : n \in 1 .. MaxBits}

InitPrefixOr ==
    /\ seed \in 0 .. MaxSeed
    /\ \E p \in ElectionPrimes, a_i \in BitLists, msgid \in {0, 1} :
          WinnerStart("prefix_or", p, 3, a_i, msgid)

PrefixOr ==
    /\ pc = "shared" /\ Op("prefix_or")
    /\ shares' = prefix_or(computation_mpc, args.msgid, shares)
    /\ pc' = "computed"
    /\ UNCHANGED <<seed, args, ret, computation_mpc, running_election, db, ledger>>
    /\ UNCHANGED meshVars

NextPrefixOr == WinnerShare \/ PrefixOr \/ WinnerResolve

SpecPrefixOr == InitPrefixOr /\ [][NextPrefixOr]_vars

\* OR(a_1 .. a_k) of a list of bits.
OrUpTo(a, k) == IF \E i \in 1 .. k : a[i] = 1 THEN 1 ELSE 0

\* C20: prefix_or on shares of the bits (a_1 .. a_n), n >= 1 a perfect
\* square or not, returns exactly n shared values, the k-th being a sharing
\* of OR(a_1 .. a_k), which is what every tallier resolves it to.
C20_PrefixOr ==
    /\ Computed({"prefix_or"}) =>
          /\ Len(shares) = Len(args.values)
          /\ \A i \in 1 .. Len(shares) :
                resolve(shares[i], computation_mpc.p) = OrUpTo(args.values, i)
    /\ Resolved({"prefix_or"}) =>
          /\ Len(ret) = Len(args.values)
          /\ \A i \in 1 .. Len(ret) : \A k \in 1 .. computation_mpc.D :
                ret[i][k] = OrUpTo(args.values, i)

\* C20 witness: the bits (0,0,1,0,1,0,0), shared with polynomials that are
\* not constant, resolved to (0,0,1,1,1,1,1) on every tallier.
C20_Witness ==
    /\ Resolved({"prefix_or"}) /\ seed # 0
    /\ args.values = <<0, 0, 1, 0, 1, 0, 0>>
    /\ \A k \in 1 .. computation_mpc.D :
          [i \in 1 .. 7 |-> ret[i][k]] = <<0, 0, 1, 1, 1, 1, 1>>

(***************************************************************************)
(*                 Comparison of shared numbers (mpc.py)                   *)
(***************************************************************************)
\* reversed(s).
Reverse(s) == [i \in 1 .. Len(s) |-> s[Len(s) + 1 - i]]

\* MpcWinner.xor, lines 165-168.
xor(m, msgid, a_i, b_i) ==
    LET c_i == calc_mul_pairs(m, msgid, a_i, b_i)
    IN  Eager([i \in 1 .. Len(a_i) |-> [k \in 1 .. m.D |->
            (a_i[i][k] + b_i[i][k] - 2 * c_i[i][k]) % m.p]])

\* less_bitwise from line 176 on: d_i is the reversed prefix-or.
less_bitwise_tail(m, msgid, b_i, d_i) ==
    IF Await(d_i)
    THEN LET len == Len(b_i)
             e_i == Eager([i \in 1 .. len |->
                       IF i < len THEN [k \in 1 .. m.D |-> (d_i[i][k] - d_i[i + 1][k]) % m.p]
                       ELSE d_i[len]])
             h_i == calc_mul_pairs(m, msgid, e_i, b_i)
         IN  Eager([k \in 1 .. m.D |-> SeqSum([i \in 1 .. len |-> h_i[i][k]]) % m.p])
    ELSE None

\* MpcWinner.less_bitwise, lines 170-178: a_i and b_i are the bits of two
\* numbers, lowest first.
less_bitwise(m, msgid, a_i, b_i) ==
    less_bitwise_tail(m, msgid, b_i,
                      Reverse(prefix_or(m, msgid, Reverse(xor(m, msgid, a_i, b_i)))))

\* random_number_bits from line 183 on: r_i are the random bits of one pass
\* of the loop, made with the draws from call n on.
RECURSIVE random_number_bits(_, _, _, _)
random_number_bits_check(m, msgid, n, bits_count, r_i) ==
    IF Await(r_i)
    THEN LET p_i == [i \in 1 .. bits_count |-> Public(m, Bits(m.p, bits_count)[i])]
             check_bit == w_resolve(m, less_bitwise(m, msgid, r_i, p_i))
         IN  IF check_bit[1] = 1 THEN r_i
             ELSE random_number_bits(m, msgid, n + bits_count, bits_count)
    ELSE None

\* MpcWinner.random_number_bits, lines 180-186: every tallier takes the
\* branch of line 185 on the value it resolved, the same on all.
random_number_bits(m, msgid, n, bits_count) ==
    random_number_bits_check(m, msgid, n, bits_count,
        Eager([i \in 1 .. bits_count |-> random_bit(m, msgid + i - 1, n + i - 1)]))

\* is_odd from line 195 on.
is_odd_tail(m, msgid, e, d) ==
    IF Await(e) /\ Await(d)
    THEN LET ed == rnd_multiply(m, msgid, msgid + 1, e, d)
         IN  Eager([k \in 1 .. m.D |-> (e[k] + d[k] - 2 * ed[k]) % m.p])
    ELSE None

\* is_odd from line 191 on: r_i are the bits of the random number r; the
\* bits c_i of the resolved c are those of tallier 1, every tallier having
\* resolved the same c.
is_odd_masked(m, msgid, r_i, c) ==
    IF Await(c)
    THEN is_odd_tail(m, msgid,
             less_bitwise(m, msgid,
                          [i \in 1 .. Len(r_i) |-> Public(m, Bits(c[1], Len(r_i))[i])], r_i),
             Eager([k \in 1 .. m.D |-> IF c[k] % 2 = 0 THEN r_i[1][k] ELSE (1 - r_i[1][k]) % m.p]))
    ELSE None

is_odd_bits(m, msgid, x, r_i) ==
    IF Await(r_i)
    THEN is_odd_masked(m, msgid, r_i,
             w_resolve(m, Eager([k \in 1 .. m.D |->
                 (x[k] + (SeqSum([i \in 1 .. Len(r_i) |-> r_i[i][k] * 2 ^ (i - 1)]) % m.p)) % m.p])))
    ELSE None

\* MpcWinner.is_odd, lines 188-196.
is_odd(m, msgid, x) ==
    is_odd_bits(m, msgid, x, random_number_bits(m, msgid, msgid, CeilLog2(m.p)))

\* is_positive without the doubling of line 248: the parity of -a alone.
is_positive_undoubled(m, msgid, a) ==
    is_odd(m, msgid, Eager([k \in 1 .. m.D |-> (m.p - a[k]) % m.p]))

\* MpcWinner.is_positive, lines 247-249.
is_positive(m, msgid, a) ==
    is_odd(m, msgid, Eager([k \in 1 .. m.D |-> (2 * m.p - 2 * a[k]) % m.p]))

(***************************************************************************)
(* test_is_positive (test_mpc.py lines 148-158): a in [-(p//2), p//2] is   *)
(* shared as a mod p. The random bits need draws that are not all zero.    *)
(***************************************************************************)
InitIsPositive ==
    /\ seed \in 1 .. MaxSeed
    /\ \E p \in FieldPrimes, msgid \in {0, 1} :
          \E a \in (-(p \div 2)) .. (p \div 2) :
             WinnerStart("is_positive", p, 3, <<a>>, msgid)

IsPositive ==
    /\ pc = "shared" /\ Op("is_positive")
    /\ shares' = <<is_positive(computation_mpc, args.msgid, shares[1])>>
    /\ pc' = "computed"
    /\ UNCHANGED <<seed, args, ret, computation_mpc, running_election, db, ledger>>
    /\ UNCHANGED meshVars

NextIsPositive == WinnerShare \/ IsPositive \/ WinnerResolve

SpecIsPositive == InitIsPositive /\ [][NextIsPositive]_vars

\* C12: for every a in [-(p//2), p//2], is_positive of the shares of a mod p
\* is a sharing of 1 if a > 0 and of 0 otherwise, which is what every
\* tallier resolves it to.
C12_IsPositiveIndicator ==
    /\ Computed({"is_positive"}) =>
          resolve(shares[1], computation_mpc.p) = IF args.values[1] > 0 THEN 1 ELSE 0
    /\ Resolved({"is_positive"}) =>
          \A k \in 1 .. computation_mpc.D :
              ret[1][k] = IF args.values[1] > 0 THEN 1 ELSE 0

\* C12 witness: the boundary values p//2 and -(p//2) of Z_11 resolved to
\* 1 and to 0: here the former.
C12_Witness ==
    /\ Resolved({"is_positive"}) /\ computation_mpc.p = 11
    /\ args.values[1] = 5
    /\ \A k \in 1 .. computation_mpc.D : ret[1][k] = 1

(***************************************************************************)
(*                     CHANNELS (mpc_manager.py)                           *)
(*                                                                         *)
(* A channel is the Tallier or MultiTallier object one tallier holds for   *)
(* one peer: conn[ch] = [cls, size, queue, reader], where reader is the    *)
(* stream of frames the peer has written and receive_loop has not yet      *)
(* taken. pc[ch][msgid] is the coroutine that reads msgid on ch, with the  *)
(* Future it awaits; ret[ch][msgid] lists what its read calls returned and *)
(* ledger[ch][msgid] what the peer wrote, in the order of the writes.      *)
(***************************************************************************)
MaxFrames == 4
MaxPayload == 2
MaxSize == 2
ChanMsgIds == {0, 1}

\* dict.pop(key) and dict[key] = v.
Drop(f, key) == [x \in DOMAIN f \ {key} |-> f[x]]

Put(f, key, v) == [x \in DOMAIN f \cup {key} |-> IF x = key THEN v ELSE f[x]]

\* The two kinds of value of Tallier.queue (line 36): a list of payloads or
\* the Future of a suspended read.
List(a) == [list |-> a]

Future == [future |-> "pending"]

isinstance_list(a) == "list" \in DOMAIN a

\* What a reading coroutine is at: no read under way, suspended on a
\* pending future, or made ready by set_result and not yet resumed.
NoRead == [fut |-> "none"]

Awaiting == [fut |-> "pending"]

Done(share) == [fut |-> "done", result |-> share]

\* __init__, lines 34-36 and 87-90.
NewChannel(cls, size) == [cls |-> cls, size |-> size, queue |-> << >>, reader |-> << >>]

\* struct.pack, lines 57 and 111, as the words of the frame.
pack(c, msgid, values) ==
    IF c.cls = "Tallier" THEN <<msgid, values[1]>> ELSE <<msgid>> \o values

\* struct.unpack, lines 63 and 116.
unpack(c, frame) ==
    [msgid |-> frame[1], share |-> IF c.cls = "Tallier" THEN frame[2] ELSE Tail(frame)]

\* write on the peer's end of the connection, lines 56-58 and 110-112.
write(c, msgid, values) == [c EXCEPT !.reader = Append(@, pack(c, msgid, values))]

\* One iteration of receive_loop that ignores the msgid of the frame and
\* hands it to the first slot of the queue.
receive_loop_anyslot(c) ==
    LET f == unpack(c, Head(c.reader))
        key == IF DOMAIN c.queue = {} THEN f.msgid
               ELSE CHOOSE x \in DOMAIN c.queue : \A y \in DOMAIN c.queue : x <= y
        a == IF key \in DOMAIN c.queue THEN c.queue[key] ELSE List(<< >>)
    IN  IF isinstance_list(a)
        THEN [chan |-> [c EXCEPT !.reader = Tail(@),
                                 !.queue = Put(@, key, List(Append(a.list, f.share)))],
              set_result |-> None]
        ELSE [chan |-> [c EXCEPT !.reader = Tail(@), !.queue = Drop(@, key)],
              set_result |-> <<key, f.share>>]

\* One iteration of receive_loop, lines 62-67 and 115-120: the channel
\* after it and the future it completed, if any.
receive_loop(c) ==
    LET f == unpack(c, Head(c.reader))
        a == IF f.msgid \in DOMAIN c.queue THEN c.queue[f.msgid] ELSE List(<< >>)
    IN  IF isinstance_list(a)
        THEN [chan |-> [c EXCEPT !.reader = Tail(@),
                                 !.queue = Put(@, f.msgid, List(Append(a.list, f.share)))],
              set_result |-> None]
        ELSE [chan |-> [c EXCEPT !.reader = Tail(@), !.queue = Drop(@, f.msgid)],
              set_result |-> <<f.msgid, f.share>>]

\* The tuple read returns for a payload, lines 48, 50, 54 and 99, 101, 105.
Returned_payload(c, share) == IF c.cls = "Tallier" THEN <<share>> ELSE share

\* read that pops the first payload and leaves the list in the queue, empty
\* or not.
read_keeps_entry(c, msgid) ==
    IF msgid \in DOMAIN c.queue
    THEN LET a == c.queue[msgid].list
         IN  [chan |-> [c EXCEPT !.queue = Put(@, msgid, List(Tail(a)))],
              at |-> NoRead, returned |-> <<Returned_payload(c, Head(a))>>]
    ELSE [chan |-> [c EXCEPT !.queue = Put(@, msgid, Future)],
          at |-> Awaiting, returned |-> << >>]

\* read that pops the newest payload of the list.
read_last(c, msgid) ==
    IF msgid \in DOMAIN c.queue
    THEN LET a == c.queue[msgid].list
         IN  [chan |-> [c EXCEPT !.queue = IF Len(a) > 1
                                            THEN Put(@, msgid, List(SubSeq(a, 1, Len(a) - 1)))
                                            ELSE Drop(@, msgid)],
              at |-> NoRead, returned |-> <<Returned_payload(c, a[Len(a)])>>]
    ELSE [chan |-> [c EXCEPT !.queue = Put(@, msgid, Future)],
          at |-> Awaiting, returned |-> << >>]

\* read up to its return or its suspension, lines 45-54 and 96-105.
read(c, msgid) ==
    IF msgid \in DOMAIN c.queue
    THEN LET a == c.queue[msgid].list
         IN  [chan |-> [c EXCEPT !.queue = IF Len(a) > 1
                                            THEN Put(@, msgid, List(Tail(a)))
                                            ELSE Drop(@, msgid)],
              at |-> NoRead, returned |-> <<Returned_payload(c, Head(a))>>]
    ELSE [chan |-> [c EXCEPT !.queue = Put(@, msgid, Future)],
          at |-> Awaiting, returned |-> << >>]

\* The payloads a channel of the class carries.
Payloads(cls, size) ==
    IF cls = "Tallier" THEN [1 .. 1 -> 0 .. MaxPayload] ELSE [1 .. size -> 0 .. 1]

\* The only channel of the run.
TheChannel == 1

\* What the channels leave alone.
chanRest ==
    <<nT, nE, mpc_wait_list, config_wait_list, collected_all, clique,
      seed, args, shares, computation_mpc, running_election, db>>

InitChannel ==
    /\ nT = 0 /\ nE = 0
    /\ mpc_wait_list = << >> /\ config_wait_list = << >> /\ collected_all = << >>
    /\ clique = << >>
    /\ \E cls \in {"Tallier", "MultiTallier"} :
          conn = <<NewChannel(cls, IF cls = "Tallier" THEN 1 ELSE MaxSize)>>
    /\ pc = <<[m \in ChanMsgIds |-> NoRead]>>
    /\ ret = <<[m \in ChanMsgIds |-> << >>]>>
    /\ ledger = <<[m \in ChanMsgIds |-> << >>]>>
    /\ seed = 0 /\ args = None /\ shares = None
    /\ computation_mpc = None /\ running_election = None /\ db = None

\* The peer writes a frame.
Write(ch) ==
    /\ SeqSum([m \in 1 .. 2 |-> Len(ledger[ch][m - 1])]) < MaxFrames
    /\ \E msgid \in ChanMsgIds, values \in Payloads(conn[ch].cls, conn[ch].size) :
          /\ conn' = [conn EXCEPT ![ch] = write(@, msgid, values)]
          /\ ledger' = [ledger EXCEPT ![ch][msgid] = Append(@, values)]
    /\ UNCHANGED <<pc, ret, chanRest>>

\* receive_loop takes a frame.
ReceiveLoop(ch) ==
    /\ conn[ch].reader # << >>
    /\ \E r \in {receive_loop(conn[ch])} :
          /\ conn' = [conn EXCEPT ![ch] = r.chan]
          /\ pc' = IF r.set_result = None THEN pc
                   ELSE [pc EXCEPT ![ch][r.set_result[1]] = Done(r.set_result[2])]
    /\ UNCHANGED <<ret, ledger, chanRest>>

\* A coroutine calls read(msgid), its previous read having returned.
Read(ch) ==
    \E msgid \in ChanMsgIds :
       /\ pc[ch][msgid] = NoRead
       /\ Len(ret[ch][msgid]) < MaxFrames
       /\ \E r \in {read(conn[ch], msgid)} :
             /\ conn' = [conn EXCEPT ![ch] = r.chan]
             /\ pc' = [pc EXCEPT ![ch][msgid] = r.at]
             /\ ret' = [ret EXCEPT ![ch][msgid] = @ \o r.returned]
       /\ UNCHANGED <<ledger, chanRest>>

\* The event loop resumes a read whose future has its result (lines 54, 105).
ResumeRead(ch) ==
    \E msgid \in ChanMsgIds :
       /\ pc[ch][msgid].fut = "done"
       /\ pc' = [pc EXCEPT ![ch][msgid] = NoRead]
       /\ ret' = [ret EXCEPT ![ch][msgid] =
                     Append(@, Returned_payload(conn[ch], pc[ch][msgid].result))]
       /\ UNCHANGED <<conn, ledger, chanRest>>

NextChannel ==
    \/ Write(TheChannel) \/ ReceiveLoop(TheChannel)
    \/ Read(TheChannel) \/ ResumeRead(TheChannel)

SpecChannel == InitChannel /\ [][NextChannel]_vars

\* The payloads tagged msgid that channel ch holds and has not returned, in
\* the order read will return them: the result of a completed future, then
\* the queued list, then the frames of the stream.
Held(ch, msgid) ==
    LET c == conn[ch]
        done == IF pc[ch][msgid].fut = "done"
                THEN <<Returned_payload(c, pc[ch][msgid].result)>> ELSE << >>
        queued == IF msgid \in DOMAIN c.queue /\ isinstance_list(c.queue[msgid])
                  THEN [i \in 1 .. Len(c.queue[msgid].list) |->
                           Returned_payload(c, c.queue[msgid].list[i])]
                  ELSE << >>
        stream == SelectSeq(c.reader, LAMBDA f : unpack(c, f).msgid = msgid)
    IN  done \o queued \o [i \in 1 .. Len(stream) |-> Returned_payload(c, unpack(c, stream[i]).share)]

\* C18: on one channel and for one msgid, the payloads the successive reads
\* returned, followed by the ones the channel still holds, are the payloads
\* of the frames tagged msgid in their order of arrival: none is dropped,
\* duplicated or overtaken, whether it came before or after the read.
C18_FifoPerMsgid ==
    \A msgid \in ChanMsgIds :
        ret[TheChannel][msgid] \o Held(TheChannel, msgid) = ledger[TheChannel][msgid]

\* C18 witness: two frames of msgid 0 with different payloads, the first
\* arrived before its read and the second after its read was issued, with a
\* frame of msgid 1 between them, both returned in the order of arrival.
C18_Witness ==
    /\ conn[TheChannel].cls = "Tallier"
    /\ ledger[TheChannel][0] = << <<1>>, <<2>> >>
    /\ ret[TheChannel][0] = << <<1>>, <<2>> >>
    /\ Len(ledger[TheChannel][1]) = 1

(***************************************************************************)
(* test_resolve and test_random_number (test_mpc.py lines 84-93, 126-134): *)
(* every tallier of a clique of three runs two operations side by side on  *)
(* msgid 0 and msgid 1. conn[<<k, i>>] is the channel tallier k holds for  *)
(* peer i; what i writes for k lands in its reader. shares[k] is how far   *)
(* code(t) has got on tallier k: its phase and, per msgid, the operation   *)
(* of that slot with the share it holds or returned.                       *)
(***************************************************************************)
ExchangeD == 3

ExchangeChannels == {ch \in (1 .. ExchangeD) \X (1 .. ExchangeD) : ch[1] # ch[2]}

ExchangeSecrets == {<<1, 2>>}

\* The shares the talliers hold of secret number c of the test.
SecretShares(m, secrets, c) == gen_shamir(m, secrets[c], 0, 0, c)

\* A slot of code(t): the coroutine of one msgid.
Slot(at, round, val) == [at |-> at, round |-> round, val |-> val, own |-> None]

ExchangeInit(test) ==
    /\ nT = 0 /\ nE = 0
    /\ mpc_wait_list = << >> /\ config_wait_list = << >> /\ collected_all = << >>
    /\ clique = << >>
    /\ seed \in 1 .. MaxSeed
    /\ computation_mpc = MpcBase(Election("approval", 3, MaxPrime, 5), ExchangeD)
    /\ \E secrets \in (IF test = "test_resolve" THEN ExchangeSecrets ELSE {<<0, 0>>}) :
             /\ args = [test |-> test, secrets |-> secrets]
             /\ shares = [k \in 1 .. ExchangeD |->
                   [phase |-> IF test = "test_resolve" THEN "resolve" ELSE "random_number",
                    slot |-> [msgid \in ChanMsgIds |->
                       Slot("ready", 0,
                            IF test = "test_resolve"
                            THEN SecretShares(computation_mpc, secrets, msgid + 1)[k]
                            ELSE None)]]]
    /\ conn = [ch \in ExchangeChannels |-> NewChannel("Tallier", 1)]
    /\ pc = [ch \in ExchangeChannels |-> [m \in ChanMsgIds |-> NoRead]]
    /\ ret = [ch \in ExchangeChannels |-> [m \in ChanMsgIds |-> << >>]]
    /\ ledger = [ch \in ExchangeChannels |-> [m \in ChanMsgIds |-> << >>]]
    /\ running_election = None /\ db = None

\* The values tallier k hands to exchange on msgid: the shares of its sample
\* (random_number, line 120) or its share for every peer (resolve, line 116).
ExchangeValues(m, k, phase, msgid, val) ==
    IF phase = "random_number"
    THEN gen_shamir(m, Rand(msgid, k, 0, 0, m.p), msgid, k, 1)
    ELSE [i \in 1 .. m.D |-> val]

\* An exchange that writes to every peer the value of the sender's own slot.
exchange_ownslot(st, k, msgid, values) ==
    [conn |-> [ch \in DOMAIN st.conn |->
                 IF ch[2] = k THEN write(st.conn[ch], msgid, <<values[k]>>)
                 ELSE IF ch[1] = k THEN read(st.conn[ch], msgid).chan
                 ELSE st.conn[ch]],
     ledger |-> [ch \in DOMAIN st.conn |->
                   IF ch[2] = k
                   THEN [st.ledger[ch] EXCEPT ![msgid] = Append(@, <<values[k]>>)]
                   ELSE st.ledger[ch]],
     pc |-> [ch \in DOMAIN st.conn |->
               IF ch[1] = k THEN [st.pc[ch] EXCEPT ![msgid] = read(st.conn[ch], msgid).at]
               ELSE st.pc[ch]],
     ret |-> [ch \in DOMAIN st.conn |->
                IF ch[1] = k
                THEN [st.ret[ch] EXCEPT ![msgid] = @ \o read(st.conn[ch], msgid).returned]
                ELSE st.ret[ch]]]

\* exchange, lines 70-76, up to the suspension of its reads, on the channels
\* st of the clique: single_exchange writes to every peer and calls read on
\* the peer's channel.
exchange(st, k, msgid, values) ==
    [conn |-> [ch \in DOMAIN st.conn |->
                 IF ch[2] = k THEN write(st.conn[ch], msgid, <<values[ch[1]]>>)
                 ELSE IF ch[1] = k THEN read(st.conn[ch], msgid).chan
                 ELSE st.conn[ch]],
     ledger |-> [ch \in DOMAIN st.conn |->
                   IF ch[2] = k
                   THEN [st.ledger[ch] EXCEPT ![msgid] = Append(@, <<values[ch[1]]>>)]
                   ELSE st.ledger[ch]],
     pc |-> [ch \in DOMAIN st.conn |->
               IF ch[1] = k THEN [st.pc[ch] EXCEPT ![msgid] = read(st.conn[ch], msgid).at]
               ELSE st.pc[ch]],
     ret |-> [ch \in DOMAIN st.conn |->
                IF ch[1] = k
                THEN [st.ret[ch] EXCEPT ![msgid] = @ \o read(st.conn[ch], msgid).returned]
                ELSE st.ret[ch]]]

\* The gather of code(t), lines 90 and 129-130: the event loop runs the
\* exchange of msgid 0 and then the one of msgid 1, each up to its reads,
\* with nothing between them (neither write nor read suspends before).
ExchangeStart(k) ==
    /\ \A msgid \in ChanMsgIds : shares[k].slot[msgid].at = "ready"
    /\ \E values \in {[msgid \in ChanMsgIds |->
                          ExchangeValues(computation_mpc, k, shares[k].phase, msgid,
                                         shares[k].slot[msgid].val)]} :
          /\ \E st0 \in {exchange([conn |-> conn, ledger |-> ledger, pc |-> pc, ret |-> ret],
                                    k, 0, values[0])} :
                \E st \in {exchange(st0, k, 1, values[1])} :
                   /\ conn' = st.conn /\ ledger' = st.ledger
                   /\ pc' = st.pc /\ ret' = st.ret
          /\ shares' = [shares EXCEPT ![k].slot =
                           [msgid \in ChanMsgIds |->
                               [@[msgid] EXCEPT !.at = "exchange", !.round = @ + 1,
                                                !.own = values[msgid][k]]]]
    /\ UNCHANGED <<seed, args, computation_mpc, running_election, db>>
    /\ UNCHANGED <<nT, nE, mpc_wait_list, config_wait_list, collected_all, clique>>

\* exchange from the return of its reads on: the gather of line 76 and what
\* random_number (line 121) or resolve (line 117) makes of it.
ExchangeFinish(k, msgid) ==
    /\ shares[k].slot[msgid].at = "exchange"
    /\ \A i \in 1 .. ExchangeD \ {k} :
          /\ pc[<<k, i>>][msgid] = NoRead
          /\ Len(ret[<<k, i>>][msgid]) = shares[k].slot[msgid].round
    /\ \E results \in {[i \in 1 .. ExchangeD |->
                          IF i = k THEN shares[k].slot[msgid].own
                          ELSE ret[<<k, i>>][msgid][shares[k].slot[msgid].round][1]]} :
          shares' = [shares EXCEPT ![k].slot[msgid] =
                        [@ EXCEPT !.at = "returned",
                                  !.val = IF shares[k].phase = "random_number"
                                          THEN SeqSum(results) % computation_mpc.p
                                          ELSE resolve(results, computation_mpc.p)]]
    /\ UNCHANGED <<conn, pc, ret, ledger>>
    /\ UNCHANGED <<seed, args, computation_mpc, running_election, db>>
    /\ UNCHANGED <<nT, nE, mpc_wait_list, config_wait_list, collected_all, clique>>

\* code(t) after the gather of both slots: the resolve calls of line 130
\* after the random numbers of line 129, or the return.
Gathered(k) ==
    /\ shares[k].phase \in {"random_number", "resolve"}
    /\ \A msgid \in ChanMsgIds : shares[k].slot[msgid].at = "returned"
    /\ shares' = [shares EXCEPT ![k] =
                    IF @.phase = "random_number"
                    THEN [phase |-> "resolve",
                          slot |-> [msgid \in ChanMsgIds |-> [@.slot[msgid] EXCEPT !.at = "ready"]]]
                    ELSE [@ EXCEPT !.phase = "end"]]
    /\ UNCHANGED <<conn, pc, ret, ledger>>
    /\ UNCHANGED <<seed, args, computation_mpc, running_election, db>>
    /\ UNCHANGED <<nT, nE, mpc_wait_list, config_wait_list, collected_all, clique>>

NextExchange ==
    \/ \E k \in 1 .. ExchangeD : ExchangeStart(k)
    \/ \E ch \in ExchangeChannels : ReceiveLoop(ch)
    \/ \E ch \in ExchangeChannels : ResumeRead(ch)
    \/ \E k \in 1 .. ExchangeD, msgid \in ChanMsgIds : ExchangeFinish(k, msgid)
    \/ \E k \in 1 .. ExchangeD : Gathered(k)

\* test_resolve, lines 84-93.
InitResolve == ExchangeInit("test_resolve")

SpecResolve == InitResolve /\ [][NextExchange]_vars

\* test_random_number, lines 126-134.
InitRandomNumber == ExchangeInit("test_random_number")

SpecRandomNumber == InitRandomNumber /\ [][NextExchange]_vars

\* The clear value tallier k returned for msgid, once code(t) has returned.
Response(k, msgid) == shares[k].slot[msgid].val

Ended(k) == shares[k].phase = "end"

QueueOf(c, msgid) == IF msgid \in DOMAIN c.queue THEN c.queue[msgid] ELSE None

\* receive_loop of channel ch takes, in this step, a frame that does not
\* carry msgid.
TakesOther(ch, msgid) ==
    /\ conn[ch].reader # << >>
    /\ conn'[ch].reader = Tail(conn[ch].reader)
    /\ unpack(conn[ch], Head(conn[ch].reader)).msgid # msgid

\* C13: when code(t) of test_random_number has returned on a tallier, the
\* value it resolved for each of the msgids 0 and 1, whose random_number
\* calls ran side by side, is the sum mod p of the samples the D talliers
\* drew for that msgid: the same value on every tallier. Before that, what
\* random_number returned to it is the sum of the shares of these samples
\* that were addressed to it.
C13_RandomNumberAgreement ==
    \A k \in 1 .. ExchangeD, msgid \in ChanMsgIds :
       /\ Ended(k) =>
             Response(k, msgid) =
                SeqSum([i \in 1 .. ExchangeD |-> Rand(msgid, i, 0, 0, computation_mpc.p)])
                    % computation_mpc.p
       /\ (shares[k].phase = "random_number" /\ shares[k].slot[msgid].at = "returned") =>
             Response(k, msgid) =
                SeqSum([i \in 1 .. ExchangeD |->
                    ExchangeValues(computation_mpc, i, "random_number", msgid, None)[k]])
                    % computation_mpc.p

\* C13 witness: every tallier returned, with different values for the two
\* msgids.
C13_Witness ==
    /\ args.test = "test_random_number"
    /\ \A k \in 1 .. ExchangeD : Ended(k)
    /\ Response(1, 0) # Response(1, 1)

\* C19: a frame that receive_loop takes never completes the waiter nor
\* changes the queue of a msgid it does not carry, and what read(msgid)
\* returned are payloads written with that msgid; so the two resolve calls of
\* test_resolve, run side by side on msgid 0 and 1, return each its own
\* secret on every tallier.
C19_MsgidIsolation ==
    /\ [][\A ch \in ExchangeChannels, msgid \in ChanMsgIds :
            TakesOther(ch, msgid) =>
               /\ QueueOf(conn'[ch], msgid) = QueueOf(conn[ch], msgid)
               /\ pc'[ch][msgid] = pc[ch][msgid]
               /\ ret'[ch][msgid] = ret[ch][msgid]]_vars
    /\ [](\A ch \in ExchangeChannels, msgid \in ChanMsgIds :
            ret[ch][msgid] = SubSeq(ledger[ch][msgid], 1, Len(ret[ch][msgid])))
    /\ [](\A k \in 1 .. ExchangeD :
            Ended(k) => \A msgid \in ChanMsgIds : Response(k, msgid) = args.secrets[msgid + 1])

\* C19 witness: every tallier returned the two different secrets of the test.
C19_Witness ==
    /\ args.test = "test_resolve" /\ args.secrets = <<1, 2>>
    /\ \A k \in 1 .. ExchangeD :
          Ended(k) /\ Response(k, 0) = 1 /\ Response(k, 1) = 2

(***************************************************************************)
(*            Comparison and maximum of shared numbers (mpc.py)            *)
(***************************************************************************)
Sub(m, a, b) == Eager([k \in 1 .. m.D |-> (a[k] + m.p - b[k]) % m.p])

\* less_middle without the doubling of line 199: the parity of a itself.
less_middle_undoubled(m, msgid, a) == Sub(m, Public(m, 1), is_odd(m, msgid, a))

\* MpcWinner.less_middle, lines 198-199.
less_middle(m, msgid, a) ==
    Sub(m, Public(m, 1), is_odd(m, msgid, Eager([k \in 1 .. m.D |-> (2 * a[k]) % m.p])))

\* less, lines 206-207, with c of line 205.
less_end(m, msgid, w, d, c) ==
    IF Await(d)
    THEN Eager([k \in 1 .. m.D |->
             (rnd_multiply(m, msgid, msgid, w, Sub(m, d, c))[k] + 1 + m.p - d[k]) % m.p])
    ELSE None

\* less from line 205 on.
less_tail(m, msgid, w, x, y, c) ==
    IF Await(c)
    THEN less_end(m, msgid, w, Eager([k \in 1 .. m.D |-> (x[k] + y[k] + m.p - c[k]) % m.p]), c)
    ELSE None

\* less from the three less_middle results on.
less_gathered(m, msgid, w, x, y) ==
    IF Await(w) /\ Await(x) /\ Await(y)
    THEN less_tail(m, msgid, w, x, y, rnd_multiply(m, msgid, msgid, x, y))
    ELSE None

\* MpcWinner.less, lines 201-207.
less(m, msgid, a, b) ==
    less_gathered(m, msgid,
                  less_middle(m, msgid, a),
                  less_middle(m, msgid + block_size(m), b),
                  less_middle(m, msgid + 2 * block_size(m), Sub(m, a, b)))

\* __max_index that keeps a when a < b.
max_index_of_smaller(m, msgid, a, b, c) ==
    LET nc == Sub(m, Public(m, 1), c)
        v1 == rnd_multiply(m, msgid, msgid, nc, b[2])
        i1 == rnd_multiply(m, msgid + 1, msgid + 1, nc, b[1])
        v2 == rnd_multiply(m, msgid + 2, msgid + 2, c, a[2])
        i2 == rnd_multiply(m, msgid + 3, msgid + 3, c, a[1])
    IN  <<Eager([k \in 1 .. m.D |-> (i1[k] + i2[k]) % m.p]),
          Eager([k \in 1 .. m.D |-> (v1[k] + v2[k]) % m.p])>>

\* __max_index from line 211 on: a and b are pairs of an index and a value.
max_index_select(m, msgid, a, b, c) ==
    LET nc == Sub(m, Public(m, 1), c)
        v1 == rnd_multiply(m, msgid, msgid, c, b[2])
        i1 == rnd_multiply(m, msgid + 1, msgid + 1, c, b[1])
        v2 == rnd_multiply(m, msgid + 2, msgid + 2, nc, a[2])
        i2 == rnd_multiply(m, msgid + 3, msgid + 3, nc, a[1])
    IN  <<Eager([k \in 1 .. m.D |-> (i1[k] + i2[k]) % m.p]),
          Eager([k \in 1 .. m.D |-> (v1[k] + v2[k]) % m.p])>>

\* The comparisons of one round of the loop of max: c of line 210 for every
\* pair of the round.
max_less(m, msgbase, votes_idx) ==
    Eager([j \in 1 .. (Len(votes_idx) \div 2) |->
              less(m, msgbase + 3 * block_size(m) * (j - 1),
                   votes_idx[2 * j - 1][2], votes_idx[2 * j][2])])

\* One round of the loop of max, line 222, from the comparisons c on: the
\* pairs __max_index returns (lines 211-215) and the element that is carried
\* over when the length is odd.
max_round(m, msgbase, votes_idx, c) ==
    Eager([j \in 1 .. (Len(votes_idx) \div 2) |->
              max_index_select(m, msgbase + 3 * block_size(m) * (j - 1),
                               votes_idx[2 * j - 1], votes_idx[2 * j], c[j])]
          \o (IF Len(votes_idx) % 2 = 1 THEN <<votes_idx[Len(votes_idx)]>> ELSE << >>))

MaxVotes == 3

\* The lists of n values of Z_p, n from 1 to MaxVotes.
VoteLists(p) == UNION {[1 .. n -> 0 .. (p - 1)] : n \in 1 .. MaxVotes}

InitMax ==
    /\ seed = 1
    /\ \E votes \in VoteLists(5) : WinnerStart("max", 5, 3, votes, 0)

\* max, lines 218-220: the early return, or votes_idx.
MaxBegin ==
    /\ pc = "shared" /\ Op("max")
    /\ IF Len(shares) <= 1
       THEN /\ ret' = Public(computation_mpc, 0)
            /\ pc' = "resolved"
            /\ UNCHANGED shares
       ELSE /\ shares' = [i \in 1 .. Len(shares) |-> <<Public(computation_mpc, i - 1), shares[i]>>]
            /\ pc' = "loop"
            /\ UNCHANGED ret
    /\ UNCHANGED <<seed, args, computation_mpc, running_election, db, ledger>>
    /\ UNCHANGED meshVars

\* One iteration of the loop of max, lines 221-222.
MaxRound ==
    /\ pc = "loop" /\ Op("max")
    /\ Len(shares) > 1
    /\ \E c \in {max_less(computation_mpc, args.msgid, shares)} :
          shares' = max_round(computation_mpc, args.msgid, shares, c)
    /\ UNCHANGED <<seed, pc, args, ret, computation_mpc, running_election, db, ledger>>
    /\ UNCHANGED meshVars

\* max, lines 223-225.
MaxReturn ==
    /\ pc = "loop" /\ Op("max")
    /\ Len(shares) = 1
    /\ ret' = w_resolve(computation_mpc, shares[1][1])
    /\ pc' = "resolved"
    /\ UNCHANGED <<seed, args, shares, computation_mpc, running_election, db, ledger>>
    /\ UNCHANGED meshVars

NextMax == WinnerShare \/ MaxBegin \/ MaxRound \/ MaxReturn

SpecMax == InitMax /\ [][NextMax]_vars

\* The clear index and value of pair j of votes_idx.
ClearPair(j) ==
    [idx |-> resolve(shares[j][1], computation_mpc.p),
     val |-> resolve(shares[j][2], computation_mpc.p)]

\* C14: max on shares of (v_0 .. v_{n-1}), n >= 1, returns on every
\* tallier the same index i, and v_i is the largest of the values. In the
\* loop, every pair of votes_idx is an index with the value at that index,
\* and the largest value is among them, also when the last pair was carried
\* over.
C14_MaxIsArgMax ==
    /\ Resolved({"max"}) =>
          \A k \in 1 .. computation_mpc.D :
              /\ ret[k] = ret[1]
              /\ ret[k] \in 0 .. (Len(args.values) - 1)
              /\ \A j \in 1 .. Len(args.values) : args.values[j] <= args.values[ret[k] + 1]
    /\ (pc = "loop" /\ Op("max")) =>
          /\ \A j \in 1 .. Len(shares) :
                /\ ClearPair(j).idx \in 0 .. (Len(args.values) - 1)
                /\ ClearPair(j).val = args.values[ClearPair(j).idx + 1]
          /\ \A i \in 1 .. Len(args.values) :
                \E j \in 1 .. Len(shares) : args.values[i] <= ClearPair(j).val

\* C14 witness: three values, the largest of them the last one, which the
\* first round carries over.
C14_Witness ==
    /\ Resolved({"max"})
    /\ args.values = <<1, 0, 3>>
    /\ \A k \in 1 .. computation_mpc.D : ret[k] = 2

(***************************************************************************)
(* Top-K winner extraction: main.calc (src/tallier.py lines 400-414). Each *)
(* tallier k keeps its own locals ret[k] = [votes, names, maxs]; the       *)
(* talliers run max together, shares being votes_idx of the call.          *)
(***************************************************************************)
CANDIDATES == <<"a", "b", "c", "d", "e">>

\* del s[i], i counted from 0.
Del(s, i) == SubSeq(s, 1, i) \o SubSeq(s, i + 2, Len(s))

\* A round that leaves the name of the winner in the list.
calc_round_keep_name(local, winner) ==
    [votes |-> Del(local.votes, winner),
     names |-> local.names,
     maxs |-> Append(local.maxs, local.names[winner + 1])]

\* calc, lines 405-407, on the locals of one tallier.
calc_round(local, winner) ==
    [votes |-> Del(local.votes, winner),
     names |-> Del(local.names, winner),
     maxs |-> Append(local.maxs, local.names[winner + 1])]

\* The votes the talliers pass to max, as shared numbers.
CalcVotes == [i \in 1 .. Len(ret[1].votes) |-> [k \in 1 .. computation_mpc.D |-> ret[k].votes[i]]]

InitCalc ==
    /\ MeshIdle
    /\ seed = 1
    /\ pc = "start" /\ shares = None /\ ret = None
    /\ running_election = None /\ db = None /\ ledger = None
    /\ computation_mpc = MpcBase(Election("approval", 3, 5, 5), 3)
    /\ \E M \in 2 .. MaxCandidates :
          \E K \in 1 .. M, values \in [1 .. M -> 0 .. MaxVote] :
             args = [op |-> "calc", values |-> values, msgid |-> 0, K |-> K,
                     CANDIDATES |-> SubSeq(CANDIDATES, 1, M)]

\* calc, line 402: votes_vector is what the tallier holds of the scores.
CalcBegin ==
    /\ pc = "shared" /\ Op("calc")
    /\ ret' = [k \in 1 .. computation_mpc.D |->
                 [votes |-> [i \in 1 .. Len(shares) |-> shares[i][k]],
                  names |-> args.CANDIDATES, maxs |-> << >>]]
    /\ pc' = "calc"
    /\ UNCHANGED <<seed, args, shares, computation_mpc, running_election, db, ledger>>
    /\ UNCHANGED meshVars

\* calc, lines 403-404, and max (mpc.py lines 218-220) up to its loop; with
\* one vote left max returns 0 and lines 405-407 follow at once.
CalcMax ==
    /\ pc = "calc" /\ Op("calc")
    /\ Len(ret[1].maxs) < args.K
    /\ IF Len(ret[1].votes) <= 1
       THEN /\ ret' = [k \in 1 .. computation_mpc.D |-> calc_round(ret[k], 0)]
            /\ UNCHANGED <<pc, shares>>
       ELSE /\ shares' = [i \in 1 .. Len(CalcVotes) |->
                             <<Public(computation_mpc, i - 1), CalcVotes[i]>>]
            /\ pc' = "loop"
            /\ UNCHANGED ret
    /\ UNCHANGED <<seed, args, computation_mpc, running_election, db, ledger>>
    /\ UNCHANGED meshVars

\* One iteration of the loop of max, mpc.py lines 221-222.
CalcMaxRound ==
    /\ pc = "loop" /\ Op("calc")
    /\ Len(shares) > 1
    /\ \E c \in {max_less(computation_mpc, args.msgid, shares)} :
          shares' = max_round(computation_mpc, args.msgid, shares, c)
    /\ UNCHANGED <<seed, pc, args, ret, computation_mpc, running_election, db, ledger>>
    /\ UNCHANGED meshVars

\* max, mpc.py lines 223-225, and calc, lines 405-407.
CalcWinner ==
    /\ pc = "loop" /\ Op("calc")
    /\ Len(shares) = 1
    /\ \E winner \in {w_resolve(computation_mpc, shares[1][1])} :
          ret' = [k \in 1 .. computation_mpc.D |-> calc_round(ret[k], winner[k])]
    /\ pc' = "calc"
    /\ UNCHANGED <<seed, args, shares, computation_mpc, running_election, db, ledger>>
    /\ UNCHANGED meshVars

\* calc, line 408.
CalcReturn ==
    /\ pc = "calc" /\ Op("calc")
    /\ Len(ret[1].maxs) = args.K
    /\ pc' = "returned"
    /\ UNCHANGED <<seed, args, shares, ret, computation_mpc, running_election, db, ledger>>
    /\ UNCHANGED meshVars

NextCalc == WinnerShare \/ CalcBegin \/ CalcMax \/ CalcMaxRound \/ CalcWinner \/ CalcReturn

SpecCalc == InitCalc /\ [][NextCalc]_vars

\* The score of a candidate name.
ScoreOf(name) == args.values[CHOOSE i \in 1 .. Len(args.CANDIDATES) : args.CANDIDATES[i] = name]

\* C15: between the rounds the votes and names of every tallier are
\* aligned (the vote at an index is a share of the score of the name at that
\* index, and the names left are the candidates not returned so far), and
\* the i-th name returned has a maximal score among the candidates not
\* returned before it; so K distinct names are returned.
C15_TopK ==
    (Op("calc") /\ pc \in {"calc", "loop", "returned"}) =>
        \A k \in 1 .. computation_mpc.D :
            /\ Len(ret[k].votes) = Len(ret[k].names)
            /\ \A i \in 1 .. Len(ret[k].names) :
                  resolve(CalcVotes[i], computation_mpc.p) = ScoreOf(ret[k].names[i])
            /\ \A i, j \in 1 .. Len(ret[k].maxs) : i # j => ret[k].maxs[i] # ret[k].maxs[j]
            /\ \A i \in 1 .. Len(ret[k].maxs) :
                  \A c \in 1 .. Len(args.CANDIDATES) :
                      \/ \E j \in 1 .. (i - 1) : ret[k].maxs[j] = args.CANDIDATES[c]
                      \/ args.values[c] <= ScoreOf(ret[k].maxs[i])
            /\ {ret[k].names[i] : i \in 1 .. Len(ret[k].names)}
                  = {args.CANDIDATES[c] : c \in 1 .. Len(args.CANDIDATES)}
                       \ {ret[k].maxs[i] : i \in 1 .. Len(ret[k].maxs)}
            /\ pc = "returned" => Len(ret[k].maxs) = args.K

\* C15 witness: three candidates with scores (1, 2, 0) and K = 3: every
\* tallier returns b, a, c.
C15_Witness ==
    /\ Op("calc") /\ pc = "returned"
    /\ args.values = <<1, 2, 0>> /\ args.K = 3
    /\ \A k \in 1 .. computation_mpc.D : ret[k].maxs = <<"b", "a", "c">>

(***************************************************************************)
(*                 Copeland and maximin scores (mpc.py)                    *)
(***************************************************************************)
\* gamma, lines 252-255 and 271-274: the entry of the pair m1 < m2 of the
\* upper triangle votes, candidates counted from 0.
gamma(votes, M, m1, m2) == votes[m2 - m1 - 1 + m1 * M - (m1 * (m1 + 1)) \div 2 + 1]

\* The candidates m2 in the order of the lists of single_score and of
\* maximin_scores: range(m + 1, M), then range(0, m).
Others(M, m) == [j \in 1 .. (M - 1) |-> IF j <= M - 1 - m THEN m + j ELSE j - (M - m)]

\* single_score, line 258.
positives(mpc, M, votes, m) ==
    [j \in 1 .. (M - 1) |->
        IF Others(M, m)[j] > m THEN gamma(votes, M, m, Others(M, m)[j])
        ELSE Eager([k \in 1 .. mpc.D |-> mpc.p - gamma(votes, M, Others(M, m)[j], m)[k]])]

\* single_score, line 259.
zeros(mpc, M, votes, m) ==
    [j \in 1 .. (M - 1) |->
        IF Others(M, m)[j] > m THEN gamma(votes, M, m, Others(M, m)[j])
        ELSE gamma(votes, M, Others(M, m)[j], m)]

\* single_score, line 265, on the gathered results.
single_score_sum(mpc, s, t, zs, ps) ==
    IF Await(zs) /\ Await(ps)
    THEN Eager([k \in 1 .. mpc.D |->
            (t * SeqSum([j \in 1 .. Len(ps) |-> ps[j][k]])
               + s * SeqSum([j \in 1 .. Len(zs) |-> zs[j][k]])) % mpc.p])
    ELSE None

\* single_score, lines 257-265.
single_score(mpc, msgbase, M, s, t, votes, m) ==
    single_score_sum(mpc, s, t,
        Eager([j \in 1 .. (M - 1) |-> w_is_zero(mpc, msgbase + j - 1, zeros(mpc, M, votes, m)[j])]),
        Eager([j \in 1 .. (M - 1) |->
            is_positive(mpc, msgbase + M - 1 + (j - 1) * block_size(mpc),
                        positives(mpc, M, votes, m)[j])]))

\* MpcWinner.copeland_scores, lines 251-268.
copeland_scores(mpc, msgbase, M, s, t, votes) ==
    Eager([i \in 1 .. M |->
        single_score(mpc, msgbase + (i - 1) * (M - 1) * (1 + block_size(mpc)), M, s, t, votes, i - 1)])

\* The pairwise vectors of M candidates with entries in [-(p//2), p//2].
PairwiseVectors(M, p) == [1 .. ((M * (M - 1)) \div 2) -> (-(p \div 2)) .. (p \div 2)]

\* test_copeland_score, lines 173-188, with alpha_s = 1 and alpha_t = 2.
InitCopeland ==
    /\ MeshIdle
    /\ seed = 1
    /\ pc = "start" /\ shares = None /\ ret = None
    /\ running_election = None /\ db = None /\ ledger = None
    /\ \E p \in ElectionPrimes, M \in 2 .. MaxCandidates :
          \E votes \in PairwiseVectors(M, p) :
             /\ computation_mpc = MpcBase(Election("copeland", M, p, 5), 3)
             /\ args = [op |-> "copeland_scores", values |-> votes, msgid |-> 0,
                        M |-> M, s |-> 1, t |-> 2]

CopelandScores ==
    /\ pc = "shared" /\ Op("copeland_scores")
    /\ shares' = copeland_scores(computation_mpc, args.msgid, args.M, args.s, args.t, shares)
    /\ pc' = "computed"
    /\ UNCHANGED <<seed, args, ret, computation_mpc, running_election, db, ledger>>
    /\ UNCHANGED meshVars

NextCopeland == WinnerShare \/ CopelandScores \/ WinnerResolve

SpecCopeland == InitCopeland /\ [][NextCopeland]_vars

\* The entry of the ordered pair (m, m2) of different candidates: the stored
\* entry of the pair for m < m2, its negation for m2 < m.
entry(votes, M, m, m2) ==
    IF m < m2 THEN gamma(votes, M, m, m2) ELSE - gamma(votes, M, m2, m)

\* The Copeland score of candidate m on the pairwise vector votes.
CopelandScore(votes, M, s, t, m) ==
    s * Cardinality({m2 \in (0 .. (M - 1)) \ {m} : entry(votes, M, m, m2) = 0})
      + t * Cardinality({m2 \in (0 .. (M - 1)) \ {m} : entry(votes, M, m, m2) > 0})

\* C16: copeland_scores of the shares of a pairwise vector with entries in
\* [-(p//2), p//2] is, for every candidate m, a sharing of
\* alpha_s * #{m2 : entry(m, m2) = 0} + alpha_t * #{m2 : entry(m, m2) > 0},
\* which is what every tallier resolves it to.
C16_CopelandScores ==
    /\ Computed({"copeland_scores"}) =>
          \A i \in 1 .. args.M :
              resolve(shares[i], computation_mpc.p)
                 = CopelandScore(args.values, args.M, args.s, args.t, i - 1) % computation_mpc.p
    /\ Resolved({"copeland_scores"}) =>
          \A i \in 1 .. args.M : \A k \in 1 .. computation_mpc.D :
              ret[i][k] = CopelandScore(args.values, args.M, args.s, args.t, i - 1) % computation_mpc.p

\* __min, lines 228-230, from the comparison c = less(msgid, a, b) on.
min_select(m, msgid, a, b, c) ==
    IF Await(c)
    THEN LET d == rnd_multiply(m, msgid, msgid, Sub(m, a, b), c)
         IN  Eager([k \in 1 .. m.D |-> (b[k] + d[k]) % m.p])
    ELSE None

\* The comparisons of one round of the loop of min, line 230: less(msgid, a, b)
\* for every pair of values[::2] and values[1::2].
min_less(m, msgbase, values) ==
    Eager([j \in 1 .. (Len(values) \div 2) |->
              less(m, msgbase + 3 * block_size(m) * (j - 1), values[2 * j - 1], values[2 * j])])

\* One round of the loop of min, line 233, from the comparisons c on; the
\* slice values[len(values)^1:] is the last element of an odd length.
min_round(m, msgbase, values, c) ==
    Eager([j \in 1 .. (Len(values) \div 2) |->
              min_select(m, msgbase + 3 * block_size(m) * (j - 1),
                         values[2 * j - 1], values[2 * j], c[j])]
          \o (IF Len(values) % 2 = 1 THEN <<values[Len(values)]>> ELSE << >>))

\* maximin_scores, line 276.
maximin_width(m, M) == 3 * block_size(m) * ((M - 1) \div 2)

\* maximin_scores, line 278: for every candidate m the list that goes to min.
maximin_values(mpc, M, votes) ==
    Eager([i \in 1 .. M |->
        Eager([j \in 1 .. (M - 1) |->
            IF Others(M, i - 1)[j] > i - 1 THEN gamma(votes, M, i - 1, Others(M, i - 1)[j])
            ELSE Eager([k \in 1 .. mpc.D |->
                        (mpc.p + 1 - gamma(votes, M, Others(M, i - 1)[j], i - 1)[k]) % mpc.p])])])

\* The pairwise vectors that sums of maximin ballots (build_ballot with
\* is_maximin) give: entries 0 .. MaxVote.
MaximinVectors(M) == [1 .. ((M * (M - 1)) \div 2) -> 0 .. MaxVote]

\* test_maximin_score, lines 208-222.
InitMaximin ==
    /\ MeshIdle
    /\ seed = 1
    /\ pc = "start" /\ shares = None /\ ret = None
    /\ running_election = None /\ db = None /\ ledger = None
    /\ \E p \in ElectionPrimes, M \in 2 .. MaxCandidates :
          \E votes \in MaximinVectors(M) :
             /\ computation_mpc = MpcBase(Election("maximin", M, p, 5), 3)
             /\ args = [op |-> "maximin_scores", values |-> votes, msgid |-> 0, M |-> M]

\* maximin_scores, lines 276-279, up to the first statement of every min:
\* the assertion of line 231 on the M - 1 values of a candidate.
MaximinBegin ==
    /\ pc = "shared" /\ Op("maximin_scores")
    /\ IF args.M - 1 > 1
       THEN /\ shares' = maximin_values(computation_mpc, args.M, shares)
            /\ pc' = "loop"
       ELSE /\ pc' = "AssertionError"
            /\ UNCHANGED shares
    /\ UNCHANGED <<seed, args, ret, computation_mpc, running_election, db, ledger>>
    /\ UNCHANGED meshVars

\* One iteration of the loop of every min, lines 232-233: the lists of the
\* candidates have the same length, so the gathered loops go round for round.
MaximinRound ==
    /\ pc = "loop" /\ Op("maximin_scores")
    /\ Len(shares[1]) > 1
    /\ \E c \in {Eager([i \in 1 .. args.M |->
                    min_less(computation_mpc,
                             args.msgid + maximin_width(computation_mpc, args.M) * (i - 1),
                             shares[i])])} :
          shares' = Eager([i \in 1 .. args.M |->
                       min_round(computation_mpc,
                                 args.msgid + maximin_width(computation_mpc, args.M) * (i - 1),
                                 shares[i], c[i])])
    /\ UNCHANGED <<seed, pc, args, ret, computation_mpc, running_election, db, ledger>>
    /\ UNCHANGED meshVars

\* min, lines 234-235, and maximin_scores, line 279.
MaximinReturn ==
    /\ pc = "loop" /\ Op("maximin_scores")
    /\ Len(shares[1]) = 1
    /\ shares' = [i \in 1 .. args.M |-> shares[i][1]]
    /\ pc' = "computed"
    /\ UNCHANGED <<seed, args, ret, computation_mpc, running_election, db, ledger>>
    /\ UNCHANGED meshVars

NextMaximin == WinnerShare \/ MaximinBegin \/ MaximinRound \/ MaximinReturn \/ WinnerResolve

SpecMaximin == InitMaximin /\ [][NextMaximin]_vars

\* The margin of candidate m against m2: the stored entry of the pair for
\* m < m2, and p + 1 - the stored entry, in [0, p), for m2 < m.
margin(votes, M, p, m, m2) ==
    IF m < m2 THEN gamma(votes, M, m, m2) ELSE (p + 1 - gamma(votes, M, m2, m)) % p

\* The maximin score of candidate m on the pairwise vector votes: the
\* smallest of the margins against the M - 1 other candidates.
MaximinScore(votes, M, p, m) ==
    CHOOSE x \in {margin(votes, M, p, m, m2) : m2 \in (0 .. (M - 1)) \ {m}} :
        \A m2 \in (0 .. (M - 1)) \ {m} : x <= margin(votes, M, p, m, m2)

\* C17: for every number of candidates M >= 2, maximin_scores of the shares
\* of a pairwise vector ends and every tallier resolves, for every candidate
\* m, the minimum of the M - 1 margins of m.
C17_MaximinScores ==
    /\ pc # "AssertionError"
    /\ Resolved({"maximin_scores"}) =>
          \A i \in 1 .. args.M : \A k \in 1 .. computation_mpc.D :
              ret[i][k] = MaximinScore(args.values, args.M, computation_mpc.p, i - 1)

(***************************************************************************)
(*        fan_in_or, call by call (mpc.py lines 137-146)                   *)
(* Every await of multiply is a step of its own; ledger is the list of the *)
(* msgids of the multiply calls made so far, in the order of the calls.    *)
(***************************************************************************)
\* fan_in_or, lines 138-143: the state of the coroutine before the loop.
fan_in_or_begin(m, a_i) ==
    LET A == Eager([k \in 1 .. m.D |->
                 (1 + SeqSum([i \in 1 .. Len(a_i) |-> a_i[i][k]])) % m.p])
        alpha_i == fan_in_or_coefficients(m.p, Len(a_i))
    IN  [i |-> 1, len |-> Len(a_i), alpha_i |-> alpha_i, A |-> A, mul_A |-> A,
         res |-> Eager([k \in 1 .. m.D |-> alpha_i[1] + alpha_i[2] * A[k]])]

\* The mutant of fan_in_or_multiply that adds the term without multiplying.
fan_in_or_unmultiplied(m, msgid, st) ==
    [st EXCEPT !.i = @ + 1,
               !.res = Eager([k \in 1 .. m.D |-> st.res[k] + st.alpha_i[st.i + 2] * st.mul_A[k]])]

\* fan_in_or, line 145: one iteration of the loop.
fan_in_or_multiply(m, msgid, st) ==
    LET mul_A == rnd_multiply(m, msgid, msgid + st.i, st.A, st.mul_A)
    IN  [st EXCEPT !.i = @ + 1, !.mul_A = mul_A,
                   !.res = Eager([k \in 1 .. m.D |-> st.res[k] + st.alpha_i[st.i + 2] * mul_A[k]])]

\* The lists of n bits with 1 <= n and n + 1 < p.
FanInBits(p) == UNION {[1 .. n -> {0, 1}] : n \in 1 .. Min(MaxBits, p - 2)}

\* A run of fan_in_or by the talliers of a clique of 3 on the shares of a
\* list of bits, under msgid 0 or 1.
InitFanInOr ==
    /\ seed \in 0 .. MaxSeed
    /\ \E p \in ElectionPrimes, msgid \in {0, 1} :
          \E a_i \in FanInBits(p) : WinnerStart("fan_in_or", p, 3, a_i, msgid)

FanInOrBegin ==
    /\ pc = "shared" /\ Op("fan_in_or")
    /\ shares' = fan_in_or_begin(computation_mpc, shares)
    /\ pc' = "loop"
    /\ UNCHANGED <<seed, args, ret, computation_mpc, running_election, db, ledger>>
    /\ UNCHANGED meshVars

FanInOrMultiply ==
    /\ pc = "loop" /\ Op("fan_in_or")
    /\ shares.i < shares.len
    /\ shares' = fan_in_or_multiply(computation_mpc, args.msgid, shares)
    /\ ledger' = Append(ledger, args.msgid)
    /\ UNCHANGED <<seed, pc, args, ret, computation_mpc, running_election, db>>
    /\ UNCHANGED meshVars

\* fan_in_or, line 146.
FanInOrReturn ==
    /\ pc = "loop" /\ Op("fan_in_or")
    /\ shares.i >= shares.len
    /\ shares' = <<Eager([k \in 1 .. computation_mpc.D |-> shares.res[k] % computation_mpc.p])>>
    /\ pc' = "computed"
    /\ UNCHANGED <<seed, args, ret, computation_mpc, running_election, db, ledger>>
    /\ UNCHANGED meshVars

NextFanInOr == WinnerShare \/ FanInOrBegin \/ FanInOrMultiply \/ FanInOrReturn \/ WinnerResolve

SpecFanInOr == InitFanInOr /\ [][NextFanInOr]_vars

\* C21: fan_in_or of the shares of n bits (1 <= n, n + 1 < p) is a sharing of
\* 0 if all bits are 0 and of 1 otherwise, which every tallier resolves; it
\* makes exactly n - 1 multiply calls, one after the other, every one on the
\* msgid of the caller.
C21_FanInOr ==
    /\ pc = "loop" =>
          /\ Len(ledger) = shares.i - 1
          /\ shares.i <= shares.len
    /\ pc \in {"loop", "computed", "resolved"} =>
          \A n \in 1 .. Len(ledger) : ledger[n] = args.msgid
    /\ pc \in {"computed", "resolved"} => Len(ledger) = Len(args.values) - 1
    /\ pc = "computed" =>
          resolve(shares[1], computation_mpc.p) = OrUpTo(args.values, Len(args.values))
    /\ pc = "resolved" =>
          \A k \in 1 .. computation_mpc.D :
              ret[1][k] = OrUpTo(args.values, Len(args.values))

\* C21 witness: the bits (0, 1, 0) resolved to 1 after two multiply calls.
C21_Witness ==
    /\ pc = "resolved" /\ args.values = <<0, 1, 0>>
    /\ ret[1] = Public(computation_mpc, 1)
    /\ ledger = <<args.msgid, args.msgid>>

(***************************************************************************)
(*     What a coalition of talliers learns from its shares (mpc.py)        *)
(***************************************************************************)
MaxColluding == 5

\* MpcBase.__init__, line 55: self.gen_shamir, with the coefficients that
\* choices(range(p), k=threshold - 1) of clean_gen_shamir returned.
mpc_gen_shamir(m, val, coefs) == clean_gen_shamir(val, m.D, (m.D + 1) \div 2, m.p, coefs)

\* What choices(range(p), k=threshold - 1) may return for a clique of D.
Choices(m) == [1 .. ((m.D + 1) \div 2 - 1) -> 0 .. (m.p - 1)]

\* An MPC instance of D talliers (odd or even) shares a secret.
InitPrivacy ==
    /\ MeshIdle
    /\ seed = 0 /\ pc = "start" /\ shares = None /\ ret = None
    /\ running_election = None /\ db = None /\ ledger = None
    /\ \E p \in ElectionPrimes, D \in 3 .. MaxColluding :
          /\ D < p
          /\ computation_mpc = MpcBase(Election("approval", 3, p, 5), D)
          /\ \E s \in 0 .. (p - 1) : \E coefs \in Choices(computation_mpc) :
                args = [op |-> "gen_shamir", s |-> s, choices |-> coefs]

\* self.gen_shamir(val): share k goes to tallier k.
GenShamir ==
    /\ pc = "start" /\ Op("gen_shamir")
    /\ shares' = mpc_gen_shamir(computation_mpc, args.s, args.choices)
    /\ pc' = "shared"
    /\ UNCHANGED <<seed, args, ret, computation_mpc, running_election, db, ledger>>
    /\ UNCHANGED meshVars

\* The talliers of a set of fewer than ceil((D + 1) / 2) put their shares
\* together: ret is what the set holds.
Collude ==
    /\ pc = "shared" /\ Op("gen_shamir")
    /\ \E S \in SUBSET (1 .. computation_mpc.D) :
          /\ S # {} /\ Cardinality(S) < CeilThreshold(computation_mpc.D)
          /\ ret' = [k \in S |-> shares[k]]
    /\ pc' = "pooled"
    /\ UNCHANGED <<seed, args, shares, computation_mpc, running_election, db, ledger>>
    /\ UNCHANGED meshVars

NextPrivacy == GenShamir \/ Collude

SpecPrivacy == InitPrivacy /\ [][NextPrivacy]_vars

\* The shares view of a set of talliers are what the set would hold in a
\* run that shares the secret s.
ConsistentWith(m, view, s) ==
    \E coefs \in Choices(m) :
        \A k \in DOMAIN view : mpc_gen_shamir(m, s, coefs)[k] = view[k]

\* C22: for every clique size D, odd or even, the shares held by a set of
\* fewer than t = ceil((D + 1) / 2) talliers are consistent with every
\* secret of [0, p): a run that differs only in the secret can give the set
\* the very same shares.
C22_SharePrivacy ==
    pc = "pooled" =>
        \A s \in 0 .. (computation_mpc.p - 1) : ConsistentWith(computation_mpc, ret, s)

(***************************************************************************)
(*              MORE CLAIMS ABOUT THE CLIQUE MANAGER                       *)
(***************************************************************************)
\* A connection attempt was made on c: _connect was spawned for it.
Attempted(c) == c \in Conns /\ conn[c] # "unspawned"

\* C23: a tallier dials only the peers whose index is lower than its
\* self_id and never a peer with a higher index, so every unordered pair of
\* talliers of an election is joined by a single connection attempt.
C23_DialDirection ==
    /\ \A c \in Conns : Attempted(c) => Acceptor(c) < Dialer(c)
    /\ \A c \in Conns : \A c2 \in Conns :
          (/\ Attempted(c) /\ Attempted(c2)
           /\ ElectionOf(c) = ElectionOf(c2)
           /\ {Dialer(c), Acceptor(c)} = {Dialer(c2), Acceptor(c2)}) => c = c2

\* The handler of the accepting side of c takes its decision in this step
\* (_react_conn, lines 219-228).
AcceptorDecides(c) ==
    conn[c] \in {"dialing", "parked"} /\ conn'[c] \in {"replied", "closedByAcceptor"}

\* The handler of the dialing side of c takes its decision in this step
\* (_connect, lines 198-206).
DialerDecides(c) ==
    conn[c] = "replied" /\ conn'[c] \in {"added", "closedByDialer"}

\* The slot the handshake read on the side of tallier i names: that of peer j
\* in the descriptor of the election of c.
SlotOccupied(c, i, j) == mpc_wait_list[i][ElectionOf(c)].talliers[j] # None

\* C24: when the handshake of a dialed or accepted connection names a peer
\* whose slot in the descriptor is occupied, the connection is closed and
\* the slots, the missing-peer count and the ready signal stay as they are;
\* a connection is closed this way in no other case.
C24_TieBreakFrame ==
    [][\A c \in Conns :
          /\ AcceptorDecides(c) =>
                (SlotOccupied(c, Acceptor(c), Dialer(c)) <=> conn'[c] = "closedByAcceptor")
          /\ DialerDecides(c) =>
                (SlotOccupied(c, Dialer(c), Acceptor(c)) <=> conn'[c] = "closedByDialer")
          /\ (~ClosedByTieBreak(c) /\ conn'[c] \in {"closedByAcceptor", "closedByDialer"}) =>
                /\ mpc_wait_list' = mpc_wait_list
                /\ collected_all' = collected_all]_vars

\* C24 witness: both duplicate-connection branches were taken: an accepted
\* and a dialed connection were closed because the slot was occupied.
C24_Witness ==
    /\ \E c \in Conns : conn[c] = "closedByAcceptor"
    /\ \E c \in Conns : conn[c] = "closedByDialer"

\* The accept handler of c is parked: its handshake was read before the
\* acceptor's start_clique of the election (_get_wait_item, lines 180-184).
Parked(c) == c \in Conns /\ conn[c] = "parked"

\* Some descriptor holds the channel of connection c in a slot.
InSomeSlot(c) ==
    \E j \in Talliers : \E x \in DOMAIN mpc_wait_list[j] : \E k \in Talliers :
        mpc_wait_list[j][x].talliers[k] = c

\* C25: a connection whose handshake arrives before the local start_clique
\* of its election is parked, neither answered nor dropped; start_clique
\* of that election removes the pending entry, and then every connection
\* parked for the election resumes and is routed to the descriptor that
\* start_clique made.
C25_ParkedConnections ==
    /\ [](\A c \in Conns : \A i \in Talliers : \A e \in Elections :
            /\ Parked(c) => ~InSomeSlot(c)
            /\ (Parked(c) /\ ~Called(Acceptor(c), ElectionOf(c))) =>
                    ElectionOf(c) \in config_wait_list[Acceptor(c)]
            /\ Called(i, e) => e \notin config_wait_list[i])
    /\ [][\A c \in Conns :
            /\ (Parked(c) /\ ~Called(Acceptor(c), ElectionOf(c))) =>
                   (conn'[c] = "parked" \/ Called(Acceptor(c), ElectionOf(c))')
            /\ (conn[c] = "dialing" /\ ~Called(Acceptor(c), ElectionOf(c))) =>
                   conn'[c] \in {"dialing", "parked"}
            /\ (Parked(c) /\ conn'[c] # "parked") =>
                   \/ /\ conn'[c] = "replied"
                      /\ mpc_wait_list'[Acceptor(c)][ElectionOf(c)].talliers[Dialer(c)] = c
                   \/ /\ conn'[c] = "closedByAcceptor"
                      /\ SlotOccupied(c, Acceptor(c), Dialer(c))]_vars
    /\ \A c \in AllConns :
          (Parked(c) /\ Called(Acceptor(c), ElectionOf(c))) ~> ~Parked(c)

\* C25 witness: two connections were parked for one election at one
\* tallier, its start_clique of that election was invoked, and the first of
\* them has resumed and holds its slot while the other is about to.
C25_Witness ==
    \E c \in Conns : \E c2 \in Conns :
        /\ c # c2 /\ Acceptor(c) = Acceptor(c2) /\ ElectionOf(c) = ElectionOf(c2)
        /\ Called(Acceptor(c), ElectionOf(c))
        /\ ElectionOf(c) \notin config_wait_list[Acceptor(c)]
        /\ conn[c2] = "parked"
        /\ conn[c] = "replied"
        /\ \A d \in Conns : Dialer(d) = Acceptor(c) => conn[d] = "dialing"

\* The peer slots of the descriptor of election e on tallier i that are
\* still empty.
EmptySlots(i, e) == {j \in Talliers \ {i} : mpc_wait_list[i][e].talliers[j] = None}

\* C26: in every reachable state a descriptor's missing-peer count is the
\* number of its empty slots other than self_id and is never negative, its
\* ready signal is set exactly when no peer slot is empty, and a filled slot
\* is never filled again.
C26_MissingCountsEmptySlots ==
    /\ [](\A i \in Talliers : \A e \in DOMAIN mpc_wait_list[i] :
            /\ mpc_wait_list[i][e].missing_talliers = Cardinality(EmptySlots(i, e))
            /\ mpc_wait_list[i][e].missing_talliers >= 0
            /\ collected_all[i] <=> EmptySlots(i, e) = {})
    /\ [][\A i \in Talliers : \A e \in DOMAIN mpc_wait_list[i] : \A j \in Talliers :
            mpc_wait_list[i][e].talliers[j] # None =>
                mpc_wait_list'[i][e].talliers[j] = mpc_wait_list[i][e].talliers[j]]_vars

(***************************************************************************)
(*                 MORE CLAIMS ABOUT THE CHANNELS                          *)
(***************************************************************************)
\* The entry of msgid in the queue of channel ch is a waiter.
Waiter(ch, msgid) ==
    msgid \in DOMAIN conn[ch].queue /\ ~isinstance_list(conn[ch].queue[msgid])

\* The list queued for msgid on channel ch, empty when there is no entry.
Queued(ch, msgid) ==
    IF msgid \in DOMAIN conn[ch].queue /\ isinstance_list(conn[ch].queue[msgid])
    THEN conn[ch].queue[msgid].list ELSE << >>

\* This step is receive_loop taking the next frame of the stream of ch.
FrameArrives(ch) == conn[ch].reader # << >> /\ conn'[ch].reader = Tail(conn[ch].reader)

\* This step is a call of read(msgid) on ch.
ReadCalled(ch, msgid) ==
    /\ pc[ch][msgid] = NoRead
    /\ pc'[ch][msgid] = Awaiting \/ Len(ret'[ch][msgid]) > Len(ret[ch][msgid])

\* C27: every entry of a channel's msgid map is a non-empty list of queued
\* payloads or one waiter, never an empty list; a frame arriving for a
\* msgid with a waiter completes the waiter with its payload and removes
\* the entry, any other frame is appended to the list of its msgid; a read
\* that takes the last queued payload removes the entry.
C27_DemuxInvariant ==
    /\ [](\A msgid \in DOMAIN conn[TheChannel].queue :
             \/ conn[TheChannel].queue[msgid] = Future
             \/ /\ isinstance_list(conn[TheChannel].queue[msgid])
                /\ conn[TheChannel].queue[msgid].list # << >>)
    /\ [][FrameArrives(TheChannel) =>
             LET f == unpack(conn[TheChannel], Head(conn[TheChannel].reader))
             IN  IF Waiter(TheChannel, f.msgid)
                 THEN /\ pc'[TheChannel][f.msgid] = Done(f.share)
                      /\ f.msgid \notin DOMAIN conn'[TheChannel].queue
                 ELSE /\ conn'[TheChannel].queue[f.msgid]
                            = List(Append(Queued(TheChannel, f.msgid), f.share))
                      /\ pc' = pc]_vars
    /\ [][\A msgid \in ChanMsgIds :
             (ReadCalled(TheChannel, msgid) /\ Len(Queued(TheChannel, msgid)) = 1) =>
                 /\ msgid \notin DOMAIN conn'[TheChannel].queue
                 /\ ret'[TheChannel][msgid]
                       = Append(ret[TheChannel][msgid],
                                Returned_payload(conn[TheChannel], Queued(TheChannel, msgid)[1]))]_vars

\* C27 witness: the map holds a list of two payloads for one msgid and a
\* waiter for the other, after a read took the last payload of a list and
\* a frame completed a waiter.
C27_Witness ==
    /\ Len(Queued(TheChannel, 0)) = 2
    /\ Waiter(TheChannel, 1)
    /\ Len(ret[TheChannel][0]) = 1
    /\ Len(ret[TheChannel][1]) = 1
    /\ Len(ledger[TheChannel][0]) = 3

(***************************************************************************)
(*        The msgids the operations of MpcWinner read on (mpc.py)          *)
(* The calls an operation makes, as a tree: a read of every channel on one *)
(* msgid, calls awaited one after the other, and calls run together by     *)
(* asyncio.gather. A loop that retries repeats the calls of one iteration  *)
(* on the same msgids, after them.                                         *)
(***************************************************************************)
Call(msgid) == [kind |-> "read", msgid |-> msgid, sub |-> << >>]

Seq_(calls) == [kind |-> "await", msgid |-> 0, sub |-> Eager(calls)]

Gather_(calls) == [kind |-> "gather", msgid |-> 0, sub |-> Eager(calls)]

\* MpcWinner.exchange, lines 70-76: one read(msgid) on every channel.
exchange_calls(msgid) == Call(msgid)

\* MpcWinner.rnd_multiply, lines 82-111: two exchanges, then the read of the
\* public value (from the computing tallier, or by it from every channel).
multiply_calls(msgid) ==
    Seq_(<<exchange_calls(msgid), exchange_calls(msgid), Call(msgid)>>)

\* MpcWinner.resolve, lines 115-117.
resolve_calls(msgid) == exchange_calls(msgid)

\* MpcWinner.random_number, lines 119-121.
random_number_calls(msgid) == exchange_calls(msgid)

\* MpcWinner.random_bit, lines 123-129.
random_bit_calls(msgid) ==
    Seq_(<<random_number_calls(msgid), multiply_calls(msgid), resolve_calls(msgid)>>)

\* MpcWinner.fan_in_or, lines 137-146.
fan_in_or_calls(msgid, len) == Seq_([i \in 1 .. (len - 1) |-> multiply_calls(msgid)])

\* prefix_or.calc_mul, lines 149-150.
calc_mul_calls(msgbase, len) == Gather_([j \in 1 .. len |-> multiply_calls(msgbase + j - 1)])

\* A prefix_or whose blocks are four lam apart instead of two.
prefix_or_calls_wide(msgid, n) ==
    LET lam == CeilSqrt(n)
    IN  Seq_(<<Gather_([i \in 1 .. lam |-> fan_in_or_calls(msgid + 4 * lam * (i - 1), lam)]),
               Gather_([i \in 1 .. lam |-> fan_in_or_calls(msgid + 4 * (i - 1) * lam, i)]),
               Gather_([i \in 1 .. lam |-> calc_mul_calls(msgid + lam * (i - 1), lam)]),
               Gather_([j \in 1 .. lam |-> fan_in_or_calls(msgid + 4 * (j - 1) * lam, j)]),
               Gather_([i \in 1 .. lam |-> calc_mul_calls(msgid + lam * (i - 1), lam)])>>)

\* MpcWinner.prefix_or, lines 148-163, on a list of n bits.
prefix_or_calls(msgid, n) ==
    LET lam == CeilSqrt(n)
    IN  Seq_(<<Gather_([i \in 1 .. lam |-> fan_in_or_calls(msgid + 2 * lam * (i - 1), lam)]),
               Gather_([i \in 1 .. lam |-> fan_in_or_calls(msgid + 2 * (i - 1) * lam, i)]),
               Gather_([i \in 1 .. lam |-> calc_mul_calls(msgid + lam * (i - 1), lam)]),
               Gather_([j \in 1 .. lam |-> fan_in_or_calls(msgid + 2 * (j - 1) * lam, j)]),
               Gather_([i \in 1 .. lam |-> calc_mul_calls(msgid + lam * (i - 1), lam)])>>)

\* MpcWinner.xor, lines 165-168.
xor_calls(msgid, n) == Gather_([i \in 1 .. n |-> multiply_calls(msgid + i - 1)])

\* MpcWinner.less_bitwise, lines 170-178.
less_bitwise_calls(msgid, n) ==
    Seq_(<<xor_calls(msgid, n), prefix_or_calls(msgid, n),
           Gather_([i \in 1 .. n |-> multiply_calls(msgid + i - 1)])>>)

\* MpcWinner.random_number_bits, lines 180-186.
random_number_bits_calls(msgid, bits_count) ==
    Seq_(<<Gather_([i \in 1 .. bits_count |-> random_bit_calls(msgid + i - 1)]),
           less_bitwise_calls(msgid, bits_count), resolve_calls(msgid)>>)

\* MpcWinner.is_odd, lines 188-196; less_middle (198-199) and is_positive
\* (247-249) make this one call.
is_odd_calls(m, msgid) ==
    Seq_(<<random_number_bits_calls(msgid, CeilLog2(m.p)), resolve_calls(msgid),
           less_bitwise_calls(msgid, CeilLog2(m.p)), multiply_calls(msgid)>>)

\* The mutant of less_calls that puts the three less_middle half a block
\* apart.
less_calls_packed(m, msgid) ==
    Seq_(<<Gather_(<<is_odd_calls(m, msgid),
                     is_odd_calls(m, msgid + block_size(m) \div 2),
                     is_odd_calls(m, msgid + (block_size(m) \div 2) * 2)>>),
           multiply_calls(msgid), multiply_calls(msgid)>>)

\* MpcWinner.less, lines 201-207.
less_calls(m, msgid) ==
    Seq_(<<Gather_(<<is_odd_calls(m, msgid),
                     is_odd_calls(m, msgid + block_size(m)),
                     is_odd_calls(m, msgid + block_size(m) * 2)>>),
           multiply_calls(msgid), multiply_calls(msgid)>>)

\* MpcWinner.__max_index, lines 209-215.
max_index_calls(m, msgid) ==
    Seq_(<<less_calls(m, msgid),
           Gather_([i \in 1 .. 4 |-> multiply_calls(msgid + i - 1)])>>)

\* min.__min, lines 228-230.
min_pair_calls(m, msgid) == Seq_(<<less_calls(m, msgid), multiply_calls(msgid)>>)

\* The loops of max and min, lines 221-222 and 232-233: one gather per
\* round, over the pairs of the len values that are left.
RECURSIVE rounds_calls(_, _, _, _)
rounds_calls(m, msgbase, len, is_max) ==
    IF len > 1
    THEN <<Gather_([j \in 1 .. (len \div 2) |->
                IF is_max THEN max_index_calls(m, msgbase + 3 * block_size(m) * (j - 1))
                ELSE min_pair_calls(m, msgbase + 3 * block_size(m) * (j - 1))])>>
         \o rounds_calls(m, msgbase, (len + 1) \div 2, is_max)
    ELSE << >>

\* MpcWinner.max, lines 217-225, on n votes.
max_calls(m, msgbase, n) ==
    IF n <= 1 THEN Seq_(<< >>)
    ELSE Seq_(rounds_calls(m, msgbase, n, TRUE) \o <<resolve_calls(msgbase)>>)

\* MpcWinner.min, lines 227-235, on n values.
min_calls(m, msgbase, n) == Seq_(rounds_calls(m, msgbase, n, FALSE))

\* The loop of is_zero, lines 240-244.
RECURSIVE is_zero_calls_loop(_, _)
is_zero_calls_loop(msgid, n) ==
    IF n > 0
    THEN (IF n % 2 = 1 THEN <<multiply_calls(msgid)>> ELSE << >>)
         \o <<multiply_calls(msgid)>> \o is_zero_calls_loop(msgid, n \div 2)
    ELSE << >>

\* MpcWinner.is_zero, lines 237-245.
is_zero_calls(m, msgid) == Seq_(is_zero_calls_loop(msgid, m.p - 1))

\* copeland_scores.single_score, lines 257-265.
single_score_calls(m, msgbase, M) ==
    Gather_(<<Gather_([j \in 1 .. (M - 1) |-> is_zero_calls(m, msgbase + j - 1)]),
              Gather_([j \in 1 .. (M - 1) |->
                          is_odd_calls(m, msgbase + M - 1 + (j - 1) * block_size(m))])>>)

\* MpcWinner.copeland_scores, lines 267-268.
copeland_scores_calls(m, msgbase, M) ==
    Gather_([i \in 1 .. M |->
                single_score_calls(m, msgbase + (i - 1) * (M - 1) * (1 + block_size(m)), M)])

\* MpcWinner.maximin_scores, lines 276-279.
maximin_scores_calls(m, msgbase, M) ==
    Gather_([i \in 1 .. M |->
                min_calls(m, msgbase + 3 * block_size(m) * ((M - 1) \div 2) * (i - 1), M - 1)])

\* The operations of the claim and the sizes of their operands.
CallSizes(op, p) ==
    CASE op \in {"max", "min"} -> 1 .. MaxVotes
      [] op \in {"prefix_or", "less_bitwise"} -> 1 .. MaxBits
      [] op \in {"copeland_scores", "maximin_scores"} -> 2 .. MaxCandidates
      [] op = "random_number_bits" -> {CeilLog2(p)}
      [] OTHER -> {0}

CallOps ==
    {"max", "min", "less", "is_odd", "random_number_bits", "less_bitwise",
     "prefix_or", "copeland_scores", "maximin_scores"}

calls_of(m, op, msgid, n) ==
    CASE op = "max" -> max_calls(m, msgid, n)
      [] op = "min" -> min_calls(m, msgid, n)
      [] op = "less" -> less_calls(m, msgid)
      [] op = "is_odd" -> is_odd_calls(m, msgid)
      [] op = "random_number_bits" -> random_number_bits_calls(msgid, n)
      [] op = "less_bitwise" -> less_bitwise_calls(msgid, n)
      [] op = "prefix_or" -> prefix_or_calls(msgid, n)
      [] op = "copeland_scores" -> copeland_scores_calls(m, msgid, n)
      [] op = "maximin_scores" -> maximin_scores_calls(m, msgid, n)

\* The primes of the runs: 3, 4 and 5 bits.
CallPrimes == FieldPrimes \cup {17}

InitCalls ==
    /\ MeshIdle
    /\ seed = 0 /\ pc = "start" /\ shares = None /\ ret = None
    /\ running_election = None /\ db = None /\ ledger = None
    /\ \E p \in CallPrimes, op \in CallOps, msgid \in {0, 1} :
          /\ computation_mpc = MpcBase(Election("approval", 3, p, 5), 3)
          /\ \E n \in CallSizes(op, p) : args = [op |-> op, msgid |-> msgid, n |-> n]

\* The operation is called: shares is the call that is looked at, ret the
\* calls around it that are under way.
CallOperation ==
    /\ pc = "start" /\ "n" \in DOMAIN args
    /\ shares' = calls_of(computation_mpc, args.op, args.msgid, args.n)
    /\ pc' = "called"
    /\ UNCHANGED <<seed, args, ret, computation_mpc, running_election, db, ledger>>
    /\ UNCHANGED meshVars

\* The run goes on into one of the calls the present call makes.
EnterCall ==
    /\ pc = "called" /\ "n" \in DOMAIN args
    /\ \E i \in 1 .. Len(shares.sub) : shares' = shares.sub[i]
    /\ UNCHANGED <<seed, pc, args, ret, computation_mpc, running_election, db, ledger>>
    /\ UNCHANGED meshVars

NextCalls == CallOperation \/ EnterCall

SpecCalls == InitCalls /\ [][NextCalls]_vars

\* The msgids a call reads on.
RECURSIVE MsgIdsOf(_)
MsgIdsOf(call) ==
    IF call.kind = "read" THEN {call.msgid}
    ELSE UNION {MsgIdsOf(call.sub[i]) : i \in 1 .. Len(call.sub)}

\* C28: within one call of max, min, less, is_odd, random_number_bits,
\* less_bitwise, prefix_or, copeland_scores or maximin_scores, the calls
\* that run together use pairwise disjoint msgids, so no read(msgid) is
\* issued on a channel while another read of that msgid is outstanding.
C28_ConcurrentCallsDisjoint ==
    (pc = "called" /\ shares.kind = "gather") =>
        \A i \in 1 .. Len(shares.sub) : \A j \in 1 .. Len(shares.sub) :
            i # j => MsgIdsOf(shares.sub[i]) \cap MsgIdsOf(shares.sub[j]) = {}

\* C28 witness: the gather of less, three less_middle that each read on
\* several msgids of their own block.
C28_Witness ==
    /\ pc = "called" /\ args.op = "less"
    /\ shares.kind = "gather" /\ Len(shares.sub) = 3
    /\ \A i \in 1 .. 3 : Cardinality(MsgIdsOf(shares.sub[i])) > 3

(***************************************************************************)
(*        The end of a channel (mpc_manager.py, mpc.py lines 57-61)        *)
(* args holds what the run adds to the channel: whether the peer has       *)
(* closed its end, how the receive_loop task of MpcBase.collectors is, and *)
(* whether the writer is closed.                                           *)
(***************************************************************************)
MaxCloseFrames == 2

\* receive_loop, lines 61-69, when the await of line 63 (114) raises: only
\* asyncio.CancelledError is caught, and its handler closes the writer;
\* any other exception ends the task and is kept in it.
receive_loop_raises(st, exception) ==
    IF exception = "CancelledError"
    THEN [st EXCEPT !.collector = "cancelled", !.writer = "closed"]
    ELSE [st EXCEPT !.collector = exception]

\* MpcBase.close, lines 57-60: cancel every collector (a task that is done
\* is left as it is), then close every channel.
mpc_close(st) ==
    [(IF st.collector = "running" THEN receive_loop_raises(st, "CancelledError") ELSE st)
        EXCEPT !.writer = "closed", !.mpc = "closed"]

InitClose ==
    /\ nT = 0 /\ nE = 0
    /\ mpc_wait_list = << >> /\ config_wait_list = << >> /\ collected_all = << >>
    /\ clique = << >>
    /\ \E cls \in {"Tallier", "MultiTallier"} :
          conn = <<NewChannel(cls, IF cls = "Tallier" THEN 1 ELSE MaxSize)>>
    /\ pc = <<[m \in ChanMsgIds |-> NoRead]>>
    /\ ret = <<[m \in ChanMsgIds |-> << >>]>>
    /\ ledger = <<[m \in ChanMsgIds |-> << >>]>>
    /\ args = [peer |-> "open", collector |-> "running", writer |-> "open", mpc |-> "open"]
    /\ seed = 0 /\ shares = None
    /\ computation_mpc = None /\ running_election = None /\ db = None

\* What the steps that end a channel leave alone.
closeRest ==
    <<nT, nE, mpc_wait_list, config_wait_list, collected_all, clique, conn,
      seed, pc, ret, shares, computation_mpc, running_election, db, ledger>>

\* The peer writes a frame, before it closes.
PeerWrites(ch) ==
    /\ args.peer = "open"
    /\ SeqSum([m \in 1 .. 2 |-> Len(ledger[ch][m - 1])]) < MaxCloseFrames
    /\ Write(ch)

\* The peer closes the connection: the stream ends after its frames.
PeerCloses(ch) ==
    /\ args.peer = "open"
    /\ args' = [args EXCEPT !.peer = "closed"]
    /\ UNCHANGED closeRest

\* receive_loop takes a frame.
ReceiveFrame(ch) == args.collector = "running" /\ ReceiveLoop(ch)

\* receive_loop reaches the end of the stream: readexactly raises
\* asyncio.IncompleteReadError.
ReceiveEof(ch) ==
    /\ args.collector = "running"
    /\ args.peer = "closed" /\ conn[ch].reader = << >>
    /\ args' = receive_loop_raises(args, "IncompleteReadError")
    /\ UNCHANGED closeRest

\* MpcBase.close.
MpcClose(ch) ==
    /\ args.mpc = "open"
    /\ args' = mpc_close(args)
    /\ UNCHANGED closeRest

NextClose ==
    \/ PeerWrites(TheChannel) \/ PeerCloses(TheChannel)
    \/ ReceiveFrame(TheChannel) \/ ReceiveEof(TheChannel)
    \/ Read(TheChannel) \/ ResumeRead(TheChannel)
    \/ MpcClose(TheChannel)

SpecClose == InitClose /\ [][NextClose]_vars

\* The event loop runs receive_loop and a resumed read whenever they are
\* ready; the peer and the callers of read and close are not bound to act.
FairSpecClose ==
    /\ InitClose /\ [][NextClose]_vars
    /\ WF_vars(ReceiveFrame(TheChannel) \/ ReceiveEof(TheChannel) \/ ResumeRead(TheChannel))

\* C29: when the peer closes the connection, receive_loop ends and closes
\* the writer, as it does when it is cancelled: whenever the loop ends, the
\* writer is closed by then.
C29_ReceiveLoopReleasesWriter ==
    [][(args.collector = "running" /\ args'.collector # "running") =>
          args'.writer = "closed"]_vars

\* C30: if the peer closes the connection while a read(msgid) of the channel
\* is pending, the read ends (with an error, when no frame is left for it):
\* no read stays suspended forever after the peer has closed.
C30_PendingReadEnds ==
    \A msgid \in ChanMsgIds :
        (args.peer = "closed" /\ pc[TheChannel][msgid] = Awaiting)
            ~> (pc[TheChannel][msgid] # Awaiting)

(***************************************************************************)
(*        The loopback channel (mpc_manager.py lines 72-80)                *)
(* TallierSelf is a Tallier without a stream: the tallier that reads it is *)
(* the one that writes it. args is the exception the last write raised.   *)
(***************************************************************************)
\* TallierSelf.__init__, lines 73-74: Tallier.__init__(self, None, None).
NewTallierSelf == [NewChannel("Tallier", 1) EXCEPT !.reader = None]

\* TallierSelf.write, lines 79-80: setdefault leaves the entry of a
\* suspended read in place and hands back its Future, which has no append.
write_self(c, msgid, values) ==
    LET a == IF msgid \in DOMAIN c.queue THEN c.queue[msgid] ELSE List(<< >>)
    IN  IF isinstance_list(a)
        THEN [chan |-> [c EXCEPT !.queue = Put(@, msgid, List(Append(a.list, values[1])))],
              raised |-> "none"]
        ELSE [chan |-> c, raised |-> "AttributeError"]

InitSelf ==
    /\ nT = 0 /\ nE = 0
    /\ mpc_wait_list = << >> /\ config_wait_list = << >> /\ collected_all = << >>
    /\ clique = << >>
    /\ conn = <<NewTallierSelf>>
    /\ pc = <<[m \in ChanMsgIds |-> NoRead]>>
    /\ ret = <<[m \in ChanMsgIds |-> << >>]>>
    /\ ledger = <<[m \in ChanMsgIds |-> << >>]>>
    /\ seed = 0 /\ args = "none" /\ shares = None
    /\ computation_mpc = None /\ running_election = None /\ db = None

\* The tallier writes a value to itself; ledger keeps the values the write
\* accepted.
WriteSelf(ch) ==
    /\ SeqSum([m \in 1 .. 2 |-> Len(ledger[ch][m - 1])]) < MaxFrames
    /\ \E msgid \in ChanMsgIds, values \in Payloads("Tallier", 1) :
       \E r \in {write_self(conn[ch], msgid, values)} :
          /\ conn' = [conn EXCEPT ![ch] = r.chan]
          /\ args' = r.raised
          /\ ledger' = IF r.raised = "none"
                       THEN [ledger EXCEPT ![ch][msgid] = Append(@, values)]
                       ELSE ledger
    /\ UNCHANGED <<nT, nE, mpc_wait_list, config_wait_list, collected_all, clique,
                   seed, pc, ret, shares, computation_mpc, running_election, db>>

\* Nothing completes the Future of a suspended read: the channel has no
\* receive_loop iteration (its reader is None) and write never calls
\* set_result.
NextSelf == WriteSelf(TheChannel) \/ Read(TheChannel)

SpecSelf == InitSelf /\ [][NextSelf]_vars

\* C31: every value written to a Self channel under msgid m is returned by
\* exactly one read(m), in write order, whether the read came after the
\* write or before it: no write fails, what the reads returned followed by
\* what the queue holds is what was written, and a read stays suspended only
\* while nothing written under its msgid is left.
C31_SelfChannel ==
    /\ args # "AttributeError"
    /\ \A msgid \in ChanMsgIds :
          /\ ret[TheChannel][msgid] \o Held(TheChannel, msgid) = ledger[TheChannel][msgid]
          /\ pc[TheChannel][msgid] = Awaiting => Held(TheChannel, msgid) = << >>

(***************************************************************************)
(*        rnd_multiply, tallier by tallier (mpc.py lines 82-109)           *)
(* The three talliers of a clique call rnd_multiply once, under the same   *)
(* msgid, on their shares of a and b, over the channels of the clique.     *)
(* shares[k] is how far the call has got on tallier k and what it holds.   *)
(***************************************************************************)
RndCall == 3

RndOperands == {<<2, 3>>, <<0, 5>>, <<10, 10>>}

\* Lines 84-87: the sample of tallier k and its two sharings.
rnd_r_i_d(m, k) ==
    LET d == (m.D + 1) \div 2
    IN  clean_gen_shamir(Rand(RndCall, k, 0, 0, m.p), m.D, d, m.p,
                         [j \in 1 .. (d - 1) |-> Rand(RndCall, k, 1, j, m.p)])

rnd_r_i_2d(m, k) ==
    LET d == (m.D + 1) \div 2
    IN  clean_gen_shamir(Rand(RndCall, k, 0, 0, m.p), m.D, 2 * d - 1, m.p,
                         [j \in 1 .. (2 * d - 2) |-> Rand(RndCall, k, 2, j, m.p)])

\* A reconstructor that does not depend on the msgid.
reconstructor_first(m, msgid) == 1

\* Line 95: the tallier of slot msgid % len(self.talliers).
reconstructor(m, msgid) == (msgid % m.D) + 1

\* A write_read in which a tallier that writes, writes to every peer.
write_read_broadcast(st, k, msgid, values, readers) ==
    LET to == IF DOMAIN values = {} THEN {} ELSE (1 .. ExchangeD) \ {k}
        v(i) == IF i \in DOMAIN values THEN values[i]
                ELSE values[CHOOSE j \in DOMAIN values : TRUE]
    IN  [conn |-> [ch \in DOMAIN st.conn |->
                     IF ch[2] = k /\ ch[1] \in to
                     THEN write(st.conn[ch], msgid, <<v(ch[1])>>)
                     ELSE IF ch[1] = k /\ ch[2] \in readers THEN read(st.conn[ch], msgid).chan
                     ELSE st.conn[ch]],
         ledger |-> [ch \in DOMAIN st.conn |->
                       IF ch[2] = k /\ ch[1] \in to
                       THEN [st.ledger[ch] EXCEPT ![msgid] = Append(@, <<v(ch[1])>>)]
                       ELSE st.ledger[ch]],
         pc |-> [ch \in DOMAIN st.conn |->
                   IF ch[1] = k /\ ch[2] \in readers
                   THEN [st.pc[ch] EXCEPT ![msgid] = read(st.conn[ch], msgid).at]
                   ELSE st.pc[ch]],
         ret |-> [ch \in DOMAIN st.conn |->
                    IF ch[1] = k /\ ch[2] \in readers
                    THEN [st.ret[ch] EXCEPT ![msgid] = @ \o read(st.conn[ch], msgid).returned]
                    ELSE st.ret[ch]]]

\* Lines 95-107 up to the suspension of the reads, on the channels st of
\* the clique: tallier k writes values[i] to every peer i of DOMAIN values
\* and calls read on the channel of every peer of readers.
write_read(st, k, msgid, values, readers) ==
    [conn |-> [ch \in DOMAIN st.conn |->
                 IF ch[2] = k /\ ch[1] \in DOMAIN values
                 THEN write(st.conn[ch], msgid, <<values[ch[1]]>>)
                 ELSE IF ch[1] = k /\ ch[2] \in readers THEN read(st.conn[ch], msgid).chan
                 ELSE st.conn[ch]],
     ledger |-> [ch \in DOMAIN st.conn |->
                   IF ch[2] = k /\ ch[1] \in DOMAIN values
                   THEN [st.ledger[ch] EXCEPT ![msgid] = Append(@, <<values[ch[1]]>>)]
                   ELSE st.ledger[ch]],
     pc |-> [ch \in DOMAIN st.conn |->
               IF ch[1] = k /\ ch[2] \in readers
               THEN [st.pc[ch] EXCEPT ![msgid] = read(st.conn[ch], msgid).at]
               ELSE st.pc[ch]],
     ret |-> [ch \in DOMAIN st.conn |->
                IF ch[1] = k /\ ch[2] \in readers
                THEN [st.ret[ch] EXCEPT ![msgid] = @ \o read(st.conn[ch], msgid).returned]
                ELSE st.ret[ch]]]

Channels == [conn |-> conn, ledger |-> ledger, pc |-> pc, ret |-> ret]

Peers(k) == (1 .. ExchangeD) \ {k}

\* The reads tallier k issued on msgid have returned, n of them per peer
\* of from.
ReadsReturned(k, msgid, from, n) ==
    \A i \in from : pc[<<k, i>>][msgid] = NoRead /\ Len(ret[<<k, i>>][msgid]) = n

\* What the gather of an exchange hands back to tallier k: its own value and
\* the result of read number n on the channel of every peer.
Results(k, msgid, own, n) ==
    [i \in 1 .. ExchangeD |-> IF i = k THEN own ELSE ret[<<k, i>>][msgid][n][1]]

InitRnd ==
    /\ nT = 0 /\ nE = 0
    /\ mpc_wait_list = << >> /\ config_wait_list = << >> /\ collected_all = << >>
    /\ clique = << >>
    /\ seed \in 1 .. MaxSeed
    /\ computation_mpc = MpcBase(Election("approval", 3, MaxPrime, 5), ExchangeD)
    /\ \E ab \in RndOperands, msgid \in ChanMsgIds :
          /\ args = [a |-> ab[1], b |-> ab[2], msgid |-> msgid]
          /\ shares = [k \in 1 .. ExchangeD |->
                [at |-> "start", role |-> "none",
                 a |-> gen_shamir(computation_mpc, ab[1], 1, 1, 0)[k],
                 b |-> gen_shamir(computation_mpc, ab[2], 2, 1, 0)[k],
                 r_d |-> 0, w_d |-> 0, val |-> 0]]
    /\ conn = [ch \in ExchangeChannels |-> NewChannel("Tallier", 1)]
    /\ pc = [ch \in ExchangeChannels |-> [m \in ChanMsgIds |-> NoRead]]
    /\ ret = [ch \in ExchangeChannels |-> [m \in ChanMsgIds |-> << >>]]
    /\ ledger = [ch \in ExchangeChannels |-> [m \in ChanMsgIds |-> << >>]]
    /\ running_election = None /\ db = None

rndRest ==
    <<nT, nE, mpc_wait_list, config_wait_list, collected_all, clique,
      seed, args, computation_mpc, running_election, db>>

SetChannels(st) ==
    /\ conn' = st.conn /\ ledger' = st.ledger /\ pc' = st.pc /\ ret' = st.ret

\* Lines 84-89, up to the reads of the first exchange.
RndFirstExchange(k) ==
    /\ shares[k].at = "start"
    /\ SetChannels(exchange(Channels, k, args.msgid, rnd_r_i_d(computation_mpc, k)))
    /\ shares' = [shares EXCEPT ![k].at = "exchange r_i_d"]
    /\ UNCHANGED rndRest

\* Lines 89-90: the first exchange returns, the second goes up to its reads.
RndSecondExchange(k) ==
    /\ shares[k].at = "exchange r_i_d"
    /\ ReadsReturned(k, args.msgid, Peers(k), 1)
    /\ SetChannels(exchange(Channels, k, args.msgid, rnd_r_i_2d(computation_mpc, k)))
    /\ shares' = [shares EXCEPT
          ![k].at = "exchange r_i_2d",
          ![k].r_d = SeqSum(Results(k, args.msgid, rnd_r_i_d(computation_mpc, k)[k], 1))
                        % computation_mpc.p]
    /\ UNCHANGED rndRest

\* Lines 90-104: the second exchange returns; the tallier sends its share of
\* w to the reconstructor and reads on its channel, or, being the
\* reconstructor, reads on the channel of every peer.
RndSendOrGather(k) ==
    /\ shares[k].at = "exchange r_i_2d"
    /\ ReadsReturned(k, args.msgid, Peers(k), 2)
    /\ \E T \in {reconstructor(computation_mpc, args.msgid)},
          w_d \in {(shares[k].a * shares[k].b
                      + SeqSum(Results(k, args.msgid, rnd_r_i_2d(computation_mpc, k)[k], 2)))
                   % computation_mpc.p} :
          /\ SetChannels(IF T # k
                         THEN write_read(Channels, k, args.msgid, [i \in {T} |-> w_d], {T})
                         ELSE write_read(Channels, k, args.msgid, << >>, Peers(k)))
          /\ shares' = [shares EXCEPT ![k].at = IF T # k THEN "read w" ELSE "gather w",
                                      ![k].role = IF T # k THEN "sender" ELSE "reconstructor",
                                      ![k].w_d = w_d]
    /\ UNCHANGED rndRest

\* Lines 97 and 109: the clear w has come back from the reconstructor.
RndReturn(k) ==
    /\ shares[k].at = "read w"
    /\ \E T \in {reconstructor(computation_mpc, args.msgid)} :
          /\ ReadsReturned(k, args.msgid, {T}, 3)
          /\ shares' = [shares EXCEPT
                ![k].at = "returned",
                ![k].w_d = ret[<<k, T>>][args.msgid][3][1],
                ![k].val = (ret[<<k, T>>][args.msgid][3][1] - shares[k].r_d)
                              % computation_mpc.p]
    /\ UNCHANGED <<conn, pc, ret, ledger>>
    /\ UNCHANGED rndRest

\* Lines 104-109: the reconstructor has the share of every peer, resolves w
\* and writes it to every peer.
RndReconstruct(k) ==
    /\ shares[k].at = "gather w"
    /\ ReadsReturned(k, args.msgid, Peers(k), 3)
    /\ \E w \in {resolve(Results(k, args.msgid, shares[k].w_d, 3), computation_mpc.p)} :
          /\ SetChannels(write_read(Channels, k, args.msgid, [i \in Peers(k) |-> w], {}))
          /\ shares' = [shares EXCEPT
                ![k].at = "returned", ![k].w_d = w,
                ![k].val = (w - shares[k].r_d) % computation_mpc.p]
    /\ UNCHANGED rndRest

NextRnd ==
    \/ \E k \in 1 .. ExchangeD : RndFirstExchange(k)
    \/ \E k \in 1 .. ExchangeD : RndSecondExchange(k)
    \/ \E k \in 1 .. ExchangeD : RndSendOrGather(k)
    \/ \E k \in 1 .. ExchangeD : RndReturn(k)
    \/ \E k \in 1 .. ExchangeD : RndReconstruct(k)
    \/ \E ch \in ExchangeChannels : ReceiveLoop(ch)
    \/ \E ch \in ExchangeChannels : ResumeRead(ch)

SpecRnd == InitRnd /\ [][NextRnd]_vars

RndReturned == \A k \in 1 .. ExchangeD : shares[k].at = "returned"

\* The frames of the call that channel ch carried after the two exchanges.
Third(ch) == SubSeq(ledger[ch][args.msgid], 3, Len(ledger[ch][args.msgid]))

\* C32: in rnd_multiply exactly one tallier, the one of index msgid mod D,
\* acts as reconstructor; every other tallier sends it exactly one w share
\* and receives exactly one clear w back, the reconstructor reads exactly
\* D - 1 w shares and writes exactly D - 1 clear values, and all talliers
\* finish the call holding the same clear w.
C32_Reconstructor ==
    LET T == (args.msgid % ExchangeD) + 1
    IN  /\ \A k \in 1 .. ExchangeD :
              /\ shares[k].role = "reconstructor" => k = T
              /\ shares[k].role = "sender" => k # T
        /\ \A ch \in ExchangeChannels :
              /\ Len(ledger[ch][args.msgid]) <= (IF T \in {ch[1], ch[2]} THEN 3 ELSE 2)
              /\ Len(ret[ch][args.msgid]) <= Len(ledger[ch][args.msgid])
        /\ RndReturned =>
              /\ shares[T].role = "reconstructor"
              /\ \A k \in Peers(T) :
                    /\ shares[k].role = "sender"
                    /\ Len(Third(<<T, k>>)) = 1 /\ Len(ret[<<T, k>>][args.msgid]) = 3
                    /\ Len(Third(<<k, T>>)) = 1 /\ Len(ret[<<k, T>>][args.msgid]) = 3
                    /\ Third(<<k, T>>) = << <<shares[T].w_d>> >>
                    /\ shares[k].w_d = shares[T].w_d
                    /\ \A i \in Peers(T) \ {k} : Third(<<k, i>>) = << >>
              /\ \A k \in 1 .. ExchangeD :
                    shares[k].val =
                       rnd_multiply(computation_mpc, args.msgid, RndCall,
                                    [i \in 1 .. ExchangeD |-> shares[i].a],
                                    [i \in 1 .. ExchangeD |-> shares[i].b])[k]

\* C32 witness: the call has returned on every tallier, the reconstructor
\* being the second one.
C32_Witness ==
    /\ "msgid" \in DOMAIN args /\ args.msgid = 1
    /\ DOMAIN shares = 1 .. ExchangeD /\ RndReturned
    /\ shares[2].role = "reconstructor"

\* C33: when every tallier of the clique has completed the operation it
\* started under the same msgid, every frame that was sent has been consumed
\* by a read and no waiter remains: the queue of every channel and every
\* stream are empty, no read is suspended, and what the reads of a channel
\* returned is what was written to it.
C33_Quiescence ==
    RndReturned =>
        \A ch \in ExchangeChannels :
            /\ conn[ch].queue = << >> /\ conn[ch].reader = << >>
            /\ \A msgid \in ChanMsgIds :
                  /\ pc[ch][msgid] = NoRead
                  /\ ret[ch][msgid] = ledger[ch][msgid]

\* C33 witness: rnd_multiply has returned on every tallier after the sixteen
\* frames of the call (two exchanges, two w shares, two clear values).
C33_Witness ==
    /\ "msgid" \in DOMAIN args /\ args.msgid = 0
    /\ DOMAIN shares = 1 .. ExchangeD /\ RndReturned
    /\ \A ch \in ExchangeChannels :
          Len(ledger[ch][0]) = (IF 1 \in {ch[1], ch[2]} THEN 3 ELSE 2)

(***************************************************************************)
(*        less on every pair of Z_p (mpc.py lines 198-207)                 *)
(* shares is <<a, b>> as shared, then with the three less_middle results   *)
(* of the gather of line 202 appended, then the result of less alone.      *)
(***************************************************************************)
InitLess ==
    /\ seed \in 1 .. MaxSeed
    /\ \E p \in ElectionPrimes :
          \E a \in 0 .. (p - 1), b \in 0 .. (p - 1) :
             WinnerStart("less", p, 3, <<a, b>>, 0)

\* The gather of lines 202-204.
LessMiddle ==
    /\ pc = "shared" /\ Op("less")
    /\ LET m == computation_mpc
       IN  shares' = shares \o
              <<less_middle(m, args.msgid, shares[1]),
                less_middle(m, args.msgid + block_size(m), shares[2]),
                less_middle(m, args.msgid + 2 * block_size(m), Sub(m, shares[1], shares[2]))>>
    /\ pc' = "gathered"
    /\ UNCHANGED <<seed, args, ret, computation_mpc, running_election, db, ledger>>
    /\ UNCHANGED meshVars

\* Lines 205-207.
LessCombine ==
    /\ pc = "gathered" /\ Op("less")
    /\ shares' = <<less_gathered(computation_mpc, args.msgid, shares[3], shares[4], shares[5])>>
    /\ pc' = "computed"
    /\ UNCHANGED <<seed, args, ret, computation_mpc, running_election, db, ledger>>
    /\ UNCHANGED meshVars

NextLess == WinnerShare \/ LessMiddle \/ LessCombine \/ WinnerResolve

SpecLess == InitLess /\ [][NextLess]_vars

\* 1 when x is in the lower half of Z_p, x <= (p - 1) / 2, and 0 otherwise.
LowerHalf(x, p) == IF 2 * x <= p - 1 THEN 1 ELSE 0

\* C34: for all a, b in [0, p), less of the shares of a and b resolves on
\* every tallier to 1 if a < b and to 0 otherwise; the three less_middle
\* results it combines are sharings of 1 exactly when a, b and (a - b) mod p
\* are at most (p - 1) / 2.
C34_Less ==
    LET p == computation_mpc.p
        a == args.values[1]
        b == args.values[2]
    IN  /\ (pc = "gathered" /\ Op("less")) =>
              /\ resolve(shares[3], p) = LowerHalf(a, p)
              /\ resolve(shares[4], p) = LowerHalf(b, p)
              /\ resolve(shares[5], p) = LowerHalf((a - b) % p, p)
        /\ Computed({"less"}) => resolve(shares[1], p) = (IF a < b THEN 1 ELSE 0)
        /\ Resolved({"less"}) =>
              \A k \in 1 .. computation_mpc.D : ret[1][k] = (IF a < b THEN 1 ELSE 0)

\* C34 witness: a in the upper half and b in the lower half of Z_7 with
\* a - b in the lower half, and less resolved to 0.
C34_Witness ==
    /\ Resolved({"less"}) /\ computation_mpc.p = 7
    /\ args.values = <<5, 3>>
    /\ \A k \in 1 .. computation_mpc.D : ret[1][k] = 0

(***************************************************************************)
(*        The msgids of a block (mpc.py line 68)                           *)
(* ret is the path from the call of the operation to the call that is      *)
(* looked at: the position, at each level, of the call that was entered.   *)
(***************************************************************************)
MaxPairs == 2

FootprintOps == {"is_odd", "less_middle", "is_positive", "less", "max", "min"}

\* less_middle (lines 198-199) and is_positive (247-249) are one call of
\* is_odd on the same msgid.
footprint_calls(m, op, msgid, n) ==
    CASE op \in {"is_odd", "less_middle", "is_positive"} -> is_odd_calls(m, msgid)
      [] op = "less" -> less_calls(m, msgid)
      [] op = "max" -> max_calls(m, msgid, n)
      [] op = "min" -> min_calls(m, msgid, n)

InitFootprint ==
    /\ MeshIdle
    /\ seed = 0 /\ pc = "start" /\ shares = None /\ ret = << >>
    /\ running_election = None /\ db = None /\ ledger = None
    /\ \E p \in CallPrimes, op \in FootprintOps, msgid \in {0, 1} :
          /\ computation_mpc = MpcBase(Election("approval", 3, p, 5), 3)
          /\ \E n \in (IF op \in {"max", "min"} THEN 2 .. (2 * MaxPairs + 1) ELSE {0}) :
                args = [op |-> op, msgid |-> msgid, n |-> n]

FootprintCall ==
    /\ pc = "start" /\ "n" \in DOMAIN args
    /\ shares' = footprint_calls(computation_mpc, args.op, args.msgid, args.n)
    /\ pc' = "called"
    /\ UNCHANGED <<seed, args, ret, computation_mpc, running_election, db, ledger>>
    /\ UNCHANGED meshVars

\* The run goes on into call number i of the present call.
EnterSub ==
    /\ pc = "called" /\ "n" \in DOMAIN args
    /\ \E i \in 1 .. Len(shares.sub) :
          /\ shares' = shares.sub[i]
          /\ ret' = Append(ret, i)
    /\ UNCHANGED <<seed, pc, args, computation_mpc, running_election, db, ledger>>
    /\ UNCHANGED meshVars

NextFootprint == FootprintCall \/ EnterSub

SpecFootprint == InitFootprint /\ [][NextFootprint]_vars

\* The call reads only msgids of [lo, lo + width).
Within(call, lo, width) == MsgIdsOf(call) \subseteq lo .. (lo + width - 1)

\* C35: with block_size = 2 * ceil(sqrt(ceil(log2 p)))^2, a call of is_odd,
\* less_middle or is_positive with msgid m uses only msgids of
\* [m, m + block_size), and a call of less only msgids of
\* [m, m + 3 * block_size); the three less_middle calls of less, and the
\* pairs that a round of max or min runs together, keep each to its own
\* block and so never share a msgid.
C35_MsgidFootprint ==
    LET bs == block_size(computation_mpc)
        lam == CeilSqrt(CeilLog2(computation_mpc.p))
        m == args.msgid
    IN  pc = "called" =>
          /\ bs = 2 * lam * lam
          /\ (args.op \in {"is_odd", "less_middle", "is_positive"} /\ ret = << >>) =>
                Within(shares, m, bs)
          /\ (args.op = "less" /\ ret = << >>) => Within(shares, m, 3 * bs)
          /\ (args.op = "less" /\ ret = <<1>>) =>
                /\ shares.kind = "gather" /\ Len(shares.sub) = 3
                /\ \A i \in 1 .. 3 : Within(shares.sub[i], m + (i - 1) * bs, bs)
          /\ (args.op \in {"max", "min"} /\ Len(ret) = 1 /\ shares.kind = "gather") =>
                \A j \in 1 .. Len(shares.sub) :
                    /\ Within(shares.sub[j], m + 3 * bs * (j - 1), 3 * bs)
                    /\ \A i \in 1 .. Len(shares.sub) :
                          i # j => MsgIdsOf(shares.sub[i]) \cap MsgIdsOf(shares.sub[j]) = {}

\* C35 witness: the first round of max on five values over Z_17, two pairs
\* run together, the second of which reads beyond the first msgid of its
\* block.
C35_Witness ==
    /\ pc = "called" /\ args.op = "max" /\ args.n = 5 /\ computation_mpc.p = 17
    /\ ret = <<1>> /\ shares.kind = "gather" /\ Len(shares.sub) = 2
    /\ \E x \in MsgIdsOf(shares.sub[2]) :
          x > args.msgid + 3 * block_size(computation_mpc)

(***************************************************************************)
(*        random_bit, round by round (mpc.py lines 123-129)                *)
(* args.n is the call of the run whose draws the next round takes, ledger  *)
(* the rounds so far: the msgid, the draws and the resolved square of      *)
(* each; ret is what the last round resolved r2 to on every tallier.       *)
(***************************************************************************)
MaxRounds == 6

\* A random_bit that returns from every round.
random_bit_returns_always(r2) == TRUE

\* Line 127: if r2 != 0.
random_bit_returns(r2) == r2 # 0

\* Lines 125-126 of one round: r and the r2 every tallier resolves.
random_bit_round(m, msgid, n) ==
    LET r == w_random_number(m, n)
    IN  [r |-> r, r2 |-> w_resolve(m, rnd_multiply(m, msgid, n, r, r))]

InitRandomBit ==
    /\ MeshIdle
    /\ seed \in 1 .. MaxSeed
    /\ pc = "loop" /\ shares = None /\ ret = None
    /\ running_election = None /\ db = None /\ ledger = << >>
    /\ \E p \in CallPrimes, msgid \in {0, 1}, n \in 0 .. MaxRounds :
          /\ computation_mpc = MpcBase(Election("approval", 3, p, 5), 3)
          /\ args = [op |-> "random_bit", msgid |-> msgid, n |-> n]

\* One iteration of the loop: every tallier returns or goes round again on
\* what it resolved; pow(0, -1, p) of line 128 raises ValueError.
RandomBitRound ==
    /\ pc = "loop" /\ Op("random_bit")
    /\ \E rd \in {random_bit_round(computation_mpc, args.msgid, args.n)} :
          /\ ret' = rd.r2
          /\ ledger' = Append(ledger, [msgid |-> args.msgid, n |-> args.n, r2 |-> rd.r2[1]])
          /\ IF \A k \in 1 .. computation_mpc.D : random_bit_returns(rd.r2[k])
             THEN IF \E k \in 1 .. computation_mpc.D :
                        modular_sqrt(rd.r2[k], computation_mpc.p) = 0
                  THEN pc' = "ValueError" /\ UNCHANGED <<shares, args>>
                  ELSE /\ pc' = "returned"
                       /\ shares' = random_bit_of(computation_mpc, rd.r, rd.r2)
                       /\ UNCHANGED args
             ELSE IF \A k \in 1 .. computation_mpc.D : ~random_bit_returns(rd.r2[k])
             THEN /\ pc' = "loop"
                  /\ args' = [args EXCEPT !.n = @ + 1]
                  /\ UNCHANGED shares
             ELSE pc' = "diverged" /\ UNCHANGED <<shares, args>>
    /\ UNCHANGED <<seed, computation_mpc, running_election, db>>
    /\ UNCHANGED meshVars

\* The caller resolves the bit.
RandomBitResolve ==
    /\ pc = "returned" /\ Op("random_bit")
    /\ ret' = w_resolve(computation_mpc, shares)
    /\ pc' = "resolved"
    /\ UNCHANGED <<seed, args, shares, computation_mpc, running_election, db, ledger>>
    /\ UNCHANGED meshVars

NextRandomBit == RandomBitRound \/ RandomBitResolve

SpecRandomBit == InitRandomBit /\ [][NextRandomBit]_vars

\* C36: random_bit returns only from a round whose resolved square r^2 is
\* not zero, and what it returns is a sharing of 0 or of 1, the same bit on
\* every tallier; a round whose r^2 resolves to 0 is repeated by all
\* talliers on the same msgid with other draws, and no round ends in an
\* error.
C36_RandomBit ==
    /\ pc \notin {"ValueError", "diverged"}
    /\ \A i \in 1 .. Len(ledger) :
          /\ ledger[i].msgid = args.msgid
          /\ \A j \in 1 .. Len(ledger) : i < j => (ledger[i].n < ledger[j].n /\ ledger[i].r2 = 0)
    /\ pc = "loop" => \A i \in 1 .. Len(ledger) : ledger[i].r2 = 0
    /\ pc \in {"returned", "resolved"} =>
          /\ ledger[Len(ledger)].r2 # 0
          /\ resolve(shares, computation_mpc.p) \in {0, 1}
    /\ pc = "resolved" =>
          \A k \in 1 .. computation_mpc.D : ret[k] = resolve(shares, computation_mpc.p)

\* C36 witness: a round resolved r^2 to 0, the next one returned a bit, over
\* a prime that is 1 modulo 4.
C36_Witness ==
    /\ pc = "resolved" /\ Op("random_bit") /\ computation_mpc.p % 4 = 1
    /\ Len(ledger) = 2 /\ ledger[1].r2 = 0
    /\ \A k \in 1 .. computation_mpc.D : ret[k] = 1

(***************************************************************************)
(*        Operations on a closed instance (mpc.py lines 57-61)             *)
(* The run of the end of a channel, with the operations the owner of the   *)
(* instance invokes on it: shares is the last invocation, with whether the *)
(* instance was closed by then and how far the call got.                   *)
(***************************************************************************)
AfterCloseOps == {"resolve", "random_number", "multiply", "max", "min"}

\* An operation up to its first suspension. max returns 0 for at most one
\* vote (lines 218-219) and min asserts more than one value (line 231);
\* every other call starts with exchange (lines 70-76), whose write
\* (mpc_manager.py lines 56-58) drains the writer: StreamWriter.drain
\* raises ConnectionResetError once the writer is closed.
invoke(st, op, n) ==
    IF op = "max" /\ n <= 1 THEN "returned"
    ELSE IF op = "min" /\ n <= 1 THEN "AssertionError"
    ELSE IF st.writer = "closed" THEN "ConnectionResetError"
    ELSE "suspended in read"

InitAfterClose ==
    /\ nT = 0 /\ nE = 0
    /\ mpc_wait_list = << >> /\ config_wait_list = << >> /\ collected_all = << >>
    /\ clique = << >>
    /\ conn = <<NewChannel("Tallier", 1)>>
    /\ pc = <<[m \in ChanMsgIds |-> NoRead]>>
    /\ ret = <<[m \in ChanMsgIds |-> << >>]>>
    /\ ledger = <<[m \in ChanMsgIds |-> << >>]>>
    /\ args = [peer |-> "open", collector |-> "running", writer |-> "open", mpc |-> "open"]
    /\ shares = [op |-> "none", n |-> 0, closed |-> FALSE, outcome |-> "none"]
    /\ seed = 0 /\ computation_mpc = None /\ running_election = None /\ db = None

\* The owner invokes an operation of the instance.
Invoke ==
    /\ \E op \in AfterCloseOps, n \in 0 .. MaxVotes :
          /\ (op \notin {"max", "min"}) => n = 0
          /\ shares' = [op |-> op, n |-> n, closed |-> args.mpc = "closed",
                        outcome |-> invoke(args, op, n)]
    /\ UNCHANGED <<nT, nE, mpc_wait_list, config_wait_list, collected_all, clique, conn,
                   seed, pc, args, ret, computation_mpc, running_election, db, ledger>>

\* The steps of the end of a channel leave the invocation alone.
NextAfterClose ==
    \/ Invoke
    \/ PeerWrites(TheChannel) \/ PeerCloses(TheChannel)
    \/ ReceiveFrame(TheChannel) \/ ReceiveEof(TheChannel)
    \/ MpcClose(TheChannel)

SpecAfterClose == InitAfterClose /\ [][NextAfterClose]_vars

\* C37: after close() of an MPC instance, any further operation invoked on
\* it fails with an error: it neither returns a result nor stays suspended.
C37_ClosedInstanceFails ==
    shares.closed => shares.outcome \in {"ConnectionResetError", "AssertionError"}

(***************************************************************************)
(*     SUBMISSIONS IN FLIGHT TOGETHER (websock.py lines 139-154, db.py)    *)
(* Every websocket connection runs its own handler; a handler gives up the *)
(* event loop at each await. The handler of /elections/vote reads the       *)
(* voter's vote state at line 139 and writes the new one in db.vote at     *)
(* line 153, with the awaits of lines 144-152 in between; nothing holds a  *)
(* second submission of the same voter back meanwhile. shares holds the    *)
(* handlers that have computed new_votes and new_db_status and have not   *)
(* yet run db.vote. The elections are those over the prime of              *)
(* computation_mpc.                                                        *)
(***************************************************************************)
RevoteElections == {e \in VoteElections : e.p = ComputationPrime}

\* Lines 149-152 of the handler, once validate has returned validated[k] on
\* tallier k and the multiply of line 149 has returned scale[k]: the
\* products new_votes and new_db_status that line 153 hands to db.vote, and
\* the code every tallier closes the socket with.
handler_products(v, votes, db_status, validated, scale) ==
    LET em == running_election
        cm == computation_mpc
        msg_id == v
        returned == \A k \in 1 .. em.D : validated[k].result \in {"True", "False"}
        votes_scale == Eager([k \in 1 .. cm.D |->
                          (IF validated[k].result = "True" THEN 1 ELSE 0) * scale[k]])
        res == w_resolve(cm, votes_scale)
        new_votes == v_multiply(em, 51, votes,
                        Eager([k \in 1 .. em.D |-> [c \in 1 .. Len(votes[k]) |-> votes_scale[k]]]))
        new_db_status == rnd_multiply(cm, msg_id, 52, db_status,
                            Eager([k \in 1 .. cm.D |-> 1 - votes_scale[k]]))
    IN  [v |-> v,
         returned |-> returned,
         valid |-> \A k \in 1 .. em.D : validated[k].result = "True",
         new_votes |-> IF returned THEN new_votes ELSE None,
         new_db_status |-> IF returned THEN new_db_status ELSE None,
         close |-> Eager([k \in 1 .. em.D |->
                     IF ~returned THEN 1003 ELSE IF res[k] # 0 THEN 1000 ELSE 4000])]

\* Lines 144-152, for the shares votes[k] and not_abstain[k] that tallier k
\* received and the vote state db_status[k] it read.
handler_validated(v, votes, not_abstain, db_status) ==
    handler_products(v, votes, db_status,
                     Eager(validate(running_election, votes)),
                     rnd_multiply(computation_mpc, v, 50, db_status, not_abstain))

\* Lines 139-152 of the handler, run by all talliers on one submission of
\* voter v: the vote state is read at line 139.
handler_computed(v, ballot, na) ==
    handler_validated(v, ShareBallot(running_election, ballot),
                      gen_shamir(computation_mpc, na, 45, 0, 0),
                      Eager([k \in 1 .. computation_mpc.D |-> db[k].vote_state[v]]))

\* db.vote, lines 177-188, on every tallier: the vote vector becomes its sum
\* with the ballot handed in, the voter's vote state the one handed in.
db_vote(d, h) ==
    Eager([k \in 1 .. running_election.D |->
        [vote_vector |-> sum_int_arrays(h.new_votes[k], d[k].vote_vector,
                                        running_election.election.p),
         vote_state |-> [d[k].vote_state EXCEPT ![h.v] = h.new_db_status[k]]]])

InitRevote ==
    /\ MeshIdle
    /\ seed \in 0 .. MaxSeed
    /\ pc = "submitting" /\ args = None /\ shares = << >> /\ ret = None
    /\ \E e \in RevoteElections :
          /\ running_election = MpcBase(e, 3)
          /\ computation_mpc = MpcBase(Election("approval", 0, ComputationPrime, 1), 3)
          /\ db = [k \in 1 .. 3 |-> NewStore(e)]
          /\ ledger = [n |-> 0, counted |-> [c \in 1 .. vote_vector_size(e) |-> 0],
                       can_vote |-> [v \in Voters |-> 1]]

\* A submission of voter v arrives and its handler runs up to the await of
\* db.vote (a handler in which validate raised ends at line 164 instead).
\* The ledger notes what the submission should add: the ballot counts when
\* it is valid, the voter does not abstain and no earlier submission of the
\* voter counted.
HandlerComputes(v, ballot, na) ==
    /\ pc = "submitting" /\ ledger.n < MaxBallots
    /\ \E h \in {handler_computed(v, ballot, na)} :
          \E counts \in {h.valid /\ na = 1 /\ ledger.can_vote[v] = 1} :
             /\ shares' = IF h.returned THEN Append(shares, h) ELSE shares
             /\ ret' = IF h.returned THEN ret ELSE h.close
             /\ ledger' = [n |-> ledger.n + 1,
                           counted |-> IF counts
                                       THEN sum_int_arrays(ballot, ledger.counted,
                                                           running_election.p)
                                       ELSE ledger.counted,
                           can_vote |-> IF counts THEN [ledger.can_vote EXCEPT ![v] = 0]
                                        ELSE ledger.can_vote]
    /\ UNCHANGED <<seed, pc, args, db, computation_mpc, running_election>>
    /\ UNCHANGED meshVars

\* The db.vote of the i-th handler in flight completes, line 153, and the
\* handler closes its socket, line 154.
HandlerStores(i) ==
    /\ pc = "submitting" /\ i \in 1 .. Len(shares)
    /\ db' = db_vote(db, shares[i])
    /\ ret' = shares[i].close
    /\ shares' = [j \in 1 .. Len(shares) - 1 |-> IF j < i THEN shares[j] ELSE shares[j + 1]]
    /\ UNCHANGED <<seed, pc, args, ledger, computation_mpc, running_election>>
    /\ UNCHANGED meshVars

Submits ==
    \E v \in Voters, na \in {0, 1} :
        \E ballot \in VoteBallots(running_election.election) : HandlerComputes(v, ballot, na)

Stores == \E i \in 1 .. MaxBallots : HandlerStores(i)

NextRevote == Submits \/ Stores

SpecRevote == InitRevote /\ [][NextRevote]_vars

\* C38: once no handler is in flight, the aggregate that the talliers'
\* running vote vectors reconstruct to holds each voter's ballot at most
\* once: it is the sum of the first valid ballot of every voter that did not
\* abstain, however the submissions were interleaved.
C38_BallotCountsOnce ==
    (pc = "submitting" /\ shares = << >>) => Aggregate(db) = ledger.counted

(***************************************************************************)
(*        THE COMPUTATION MESH (websock.py lines 30-33 and 123-126)        *)
(* computation_mpc is a module-level name, None until a handler of         *)
(* /elections/vote finds it None and assigns it the MpcWinner that         *)
(* make_computation_mpc returns. make_computation_mpc awaits start_clique  *)
(* for the all-zero election id; start_clique returns once collected_all,  *)
(* an Event that all MpcWaitItems share (mpc_manager.py line 154), is set. *)
(* The handlers name the global again at every use (lines 149, 150, 152).  *)
(* Here computation_mpc is 0 for None and i for the i-th MpcWinner made;   *)
(* shares[h] is the position of handler h and the instances it has used;   *)
(* ledger counts the calls of start_clique and the instances made.         *)
(***************************************************************************)
MaxRequests == 3

Requests == 1 .. MaxRequests

InitComputation ==
    /\ MeshIdle
    /\ seed = 0 /\ pc = "serving" /\ args = None /\ ret = None
    /\ running_election = None /\ db = None
    /\ computation_mpc = 0
    /\ shares = [h \in Requests |-> [at |-> "connected", used |-> {}]]
    /\ ledger = [start_clique |-> 0, made |-> 0, collected |-> FALSE]

computationRest == <<seed, pc, args, ret, running_election, db>>

\* Lines 123-126 up to the first await: the handler of a vote request tests
\* the global; when it is None the handler calls make_computation_mpc, which
\* calls start_clique (line 32) and waits there for collected_all
\* (mpc_manager.py line 242); otherwise it goes on to line 128.
VoteRequest(h) ==
    /\ pc = "serving" /\ shares[h].at = "connected"
    /\ IF computation_mpc = 0
       THEN /\ shares' = [shares EXCEPT ![h].at = "start_clique"]
            /\ ledger' = [ledger EXCEPT !.start_clique = @ + 1]
       ELSE /\ shares' = [shares EXCEPT ![h].at = "voting"]
            /\ ledger' = ledger
    /\ UNCHANGED computation_mpc
    /\ UNCHANGED computationRest /\ UNCHANGED meshVars

\* The last peer of the clique is added: add_tallier sets collected_all
\* (mpc_manager.py lines 159-160), which nothing clears.
CollectedAll ==
    /\ pc = "serving" /\ ~ledger.collected
    /\ \E h \in Requests : shares[h].at = "start_clique"
    /\ ledger' = [ledger EXCEPT !.collected = TRUE]
    /\ UNCHANGED <<shares, computation_mpc>>
    /\ UNCHANGED computationRest /\ UNCHANGED meshVars

\* start_clique returns to make_computation_mpc, which makes an MpcWinner
\* (line 33); line 126 assigns it to the global.
MeshAssigned(h) ==
    /\ pc = "serving" /\ shares[h].at = "start_clique" /\ ledger.collected
    /\ ledger' = [ledger EXCEPT !.made = @ + 1]
    /\ computation_mpc' = ledger.made + 1
    /\ shares' = [shares EXCEPT ![h].at = "voting"]
    /\ UNCHANGED computationRest /\ UNCHANGED meshVars

\* One of the lines 149, 150 and 152: the handler calls a method of whatever
\* the global names at that moment.
UsesMesh(h) ==
    /\ pc = "serving" /\ shares[h].at = "voting"
    /\ computation_mpc \notin shares[h].used
    /\ shares' = [shares EXCEPT ![h].used = @ \cup {computation_mpc}]
    /\ UNCHANGED <<ledger, computation_mpc>>
    /\ UNCHANGED computationRest /\ UNCHANGED meshVars

\* Line 154: the handler closes its socket.
HandlerDone(h) ==
    /\ pc = "serving" /\ shares[h].at = "voting" /\ shares[h].used # {}
    /\ shares' = [shares EXCEPT ![h].at = "closed"]
    /\ UNCHANGED <<ledger, computation_mpc>>
    /\ UNCHANGED computationRest /\ UNCHANGED meshVars

VoteRequests == \E h \in Requests : VoteRequest(h)

MeshAssignments == \E h \in Requests : MeshAssigned(h)

MeshUses == \E h \in Requests : UsesMesh(h)

HandlersDone == \E h \in Requests : HandlerDone(h)

NextComputation == VoteRequests \/ CollectedAll \/ MeshAssignments \/ MeshUses \/ HandlersDone

SpecComputation == InitComputation /\ [][NextComputation]_vars

\* C39: start_clique for the all-zero election id is called at most once,
\* however many vote requests arrive before the mesh exists, and all vote
\* handlers use one and the same MpcWinner instance.
C39_MeshCreatedOnce ==
    pc = "serving" =>
        /\ ledger.start_clique <= 1
        /\ Cardinality(UNION {shares[h].used : h \in Requests}) <= 1

(***************************************************************************)
(*            inverse ON EVERY SMALL MATRIX (utils.py lines 43-73)         *)
(* args holds a square matrix a over Z_p and the prime p; ret is what      *)
(* inverse(a, p) returns, or ValueError when it raises (at line 58, or in  *)
(* pow(r1[col], -1, p) at line 45).                                        *)
(***************************************************************************)
MaxDim == 3

InversePrimes == {2, 3}

Matrices(n, p) == [1 .. n -> [1 .. n -> 0 .. (p - 1)]]

\* The matrix without its first row and its column c.
Minor(a, c) ==
    [i \in 1 .. Len(a) - 1 |->
        [j \in 1 .. Len(a) - 1 |-> IF j < c THEN a[i + 1][j] ELSE a[i + 1][j + 1]]]

\* The determinant, expanded along the first row.
RECURSIVE Det(_)
Det(a) ==
    IF Len(a) = 1 THEN a[1][1]
    ELSE SeqSum([c \in 1 .. Len(a) |->
            (IF c % 2 = 1 THEN 1 ELSE -1) * a[1][c] * Det(Minor(a, c))])

IsInvertible(a, p) == Det(a) % p # 0

MatMul(a, b, p) ==
    [i \in 1 .. Len(a) |->
        [j \in 1 .. Len(a) |-> SeqSum([k \in 1 .. Len(a) |-> a[i][k] * b[k][j]]) % p]]

IdentityMatrix(n) == [i \in 1 .. n |-> [j \in 1 .. n |-> IF i = j THEN 1 ELSE 0]]

InitInverse ==
    /\ MeshIdle
    /\ seed = 0 /\ pc = "start" /\ shares = None /\ ret = None
    /\ computation_mpc = None /\ running_election = None
    /\ db = None /\ ledger = None
    /\ \E n \in 2 .. MaxDim, p \in InversePrimes :
          \E a \in Matrices(n, p) : args = [a |-> a, p |-> p]

\* inverse(a, p) is called and returns or raises.
Invert ==
    /\ pc = "start"
    /\ pc' = "inverted"
    /\ ret' = inverse(args.a, args.p)
    /\ UNCHANGED <<seed, args, shares, computation_mpc, running_election, db, ledger>>
    /\ UNCHANGED meshVars

NextInverse == Invert

SpecInverse == InitInverse /\ [][NextInverse]_vars

\* C40: inverse(A, p) returns a matrix B with A*B = I mod p for every
\* matrix A that is invertible over Z_p, with or without a zero on its
\* diagonal, and raises exactly when A is not invertible.
C40_Inverse ==
    pc = "inverted" =>
        IF IsInvertible(args.a, args.p)
        THEN /\ ret # ValueError
             /\ MatMul(args.a, ret, args.p) = IdentityMatrix(Len(args.a))
        ELSE ret = ValueError

=============================================================================
